---- MODULE Spec2Model ----
(***************************************************************************)
(* A model of pdf2doi's identifier resolution engine: the pattern matcher  *)
(* (patterns.py), the validator with its retry loop and the strategy       *)
(* pipeline (finders.py, main.py).                                         *)
(*                                                                         *)
(* Text is modelled by TLA+ strings and the regular expressions of         *)
(* patterns.py by a small backtracking matcher, so that what a pattern     *)
(* captures is computed from the characters and not assumed.               *)
(***************************************************************************)
EXTENDS Integers, Sequences, FiniteSets, TLC

(***************************************************************************)
(* Python values                                                           *)
(***************************************************************************)
\* Python's None. The strings of the model never start with "<".
None == "<None>"

\* The -1 that validate_doi_web / validate_arxivID_web return on an exception.
MinusOne == "<-1>"

\* The implicit return value of a false Python test, kept apart from None.
PyFalse == "<False>"

\* Python's True as returned by validate when web validation is off.
PyTrue == "<True>"

\* Truthiness of the values a validator returns: None, False, -1 is truthy in
\* Python but never reaches a truth test here, "" is falsy.
Truthy(v) == v \notin {None, PyFalse, ""}

(***************************************************************************)
(* Strings                                                                 *)
(***************************************************************************)
Char(s, i) == SubSeq(s, i, i)

UpperLetters == "ABCDEFGHIJKLMNOPQRSTUVWXYZ"

LowerLetters == "abcdefghijklmnopqrstuvwxyz"

Letters == {Char(LowerLetters, i) : i \in 1..26}

Digits == {"0", "1", "2", "3", "4", "5", "6", "7", "8", "9"}

\* str.lower() on one character
LowerChar(c) ==
    IF \E i \in 1..26 : Char(UpperLetters, i) = c
    THEN Char(LowerLetters, CHOOSE i \in 1..26 : Char(UpperLetters, i) = c)
    ELSE c

RECURSIVE LowerFrom(_, _)
LowerFrom(s, i) ==
    IF i > Len(s) THEN "" ELSE LowerChar(Char(s, i)) \o LowerFrom(s, i + 1)

\* str.lower()
Lower(s) == LowerFrom(s, 1)

\* s.find(sub) >= 0
Contains(s, sub) ==
    \E i \in 1..(Len(s) - Len(sub) + 1) : SubSeq(s, i, i + Len(sub) - 1) = sub

(***************************************************************************)
(* A matcher for the regular expressions of patterns.py. A pattern is a    *)
(* sequence of items; an item is a literal, a character class with a       *)
(* greedy repetition count, an anchor, an ordered alternation of           *)
(* sub-patterns, or a mark that records the position where a group starts  *)
(* or ends. The match found is Python's: leftmost, alternatives in order,  *)
(* the largest repetition count that lets the rest of the pattern match.   *)
(* Every pattern of the program is used with re.I (or on lower-cased       *)
(* input), so the matcher works on the lower-cased text and the classes    *)
(* list letters in lower case.                                             *)
(***************************************************************************)
\* max of an item with no upper limit (+, *)
Unbounded == 0 - 1

Item(k, c, lo, hi, alts, str) ==
    [k |-> k, c |-> c, min |-> lo, max |-> hi, alts |-> alts, str |-> str]

Cls(c, lo, hi) == Item("cls", c, lo, hi, <<>>, "")

One(c) == Cls(c, 1, 1)

Plus(c) == Cls(c, 1, Unbounded)

Star(c) == Cls(c, 0, Unbounded)

Lit(str) == Item("lit", {}, 0, 0, <<>>, str)

Mark(tag) == Item("mark", {}, 0, 0, <<>>, tag)

Alt(alts) == Item("alt", {}, 0, 0, alts, "")

Opt(sub) == Alt(<<sub, <<>>>>)

\* ^ without re.M
Bos == Item("bos", {}, 0, 0, <<>>, "")

\* $ without re.M: the end of the string, or before a final newline
Eos == Item("eos", {}, 0, 0, <<>>, "")

\* $ with re.M: the end of the string, or before any newline
Eol == Item("eol", {}, 0, 0, <<>>, "")

Max(S) == CHOOSE x \in S : \A y \in S : y <= x

Min(S) == CHOOSE x \in S : \A y \in S : x <= y

\* how many characters from pos on the item's class accepts, up to its max
MaxRun(it, s, pos) ==
    LET lim == IF it.max = Unbounded \/ it.max > Len(s) + 1 - pos
               THEN Len(s) + 1 - pos ELSE it.max
    IN  Max({n \in 0..lim : \A j \in 0..(n - 1) : Char(s, pos + j) \in it.c})

\* whether an anchor or a literal holds at pos
Holds(it, s, pos) ==
    CASE it.k = "lit" -> /\ pos + Len(it.str) - 1 <= Len(s)
                         /\ SubSeq(s, pos, pos + Len(it.str) - 1) = it.str
      [] it.k = "bos" -> pos = 1
      [] it.k = "eos" -> pos = Len(s) + 1 \/ (pos = Len(s) /\ Char(s, pos) = "\n")
      [] it.k = "eol" -> pos = Len(s) + 1 \/ (pos <= Len(s) /\ Char(s, pos) = "\n")
      [] it.k = "mark" -> TRUE

RECURSIVE CanMatch(_, _, _)
\* whether the pattern matches some text that starts at pos
CanMatch(items, s, pos) ==
    IF items = <<>> THEN TRUE
    ELSE LET it == Head(items)
             rest == Tail(items)
         IN  CASE it.k = "cls" ->
                    \E n \in it.min..MaxRun(it, s, pos) : CanMatch(rest, s, pos + n)
               [] it.k = "alt" ->
                    \E i \in 1..Len(it.alts) : CanMatch(it.alts[i] \o rest, s, pos)
               [] it.k = "lit" ->
                    Holds(it, s, pos) /\ CanMatch(rest, s, pos + Len(it.str))
               [] OTHER ->
                    Holds(it, s, pos) /\ CanMatch(rest, s, pos)

RECURSIVE MatchFrom(_, _, _)
\* the match Python finds for a pattern that CanMatch at pos: where it ends and
\* where its marks fall
MatchFrom(items, s, pos) ==
    IF items = <<>> THEN [end |-> pos, tags |-> <<>>]
    ELSE LET it == Head(items)
             rest == Tail(items)
         IN  CASE it.k = "cls" ->
                    MatchFrom(rest, s, pos + Max({n \in it.min..MaxRun(it, s, pos) :
                                                     CanMatch(rest, s, pos + n)}))
               [] it.k = "alt" ->
                    MatchFrom(it.alts[Min({i \in 1..Len(it.alts) :
                                             CanMatch(it.alts[i] \o rest, s, pos)})] \o rest,
                              s, pos)
               [] it.k = "mark" ->
                    [MatchFrom(rest, s, pos) EXCEPT !.tags = <<<<it.str, pos>>>> \o @]
               [] it.k = "lit" -> MatchFrom(rest, s, pos + Len(it.str))
               [] OTHER -> MatchFrom(rest, s, pos)

RECURSIVE FindFrom(_, _, _, _)
\* the match m found at i, and the matches after it: the search goes on
\* where m ends, one character further when m is empty
FindRest(items, s, starts, i, m) ==
    <<m>> \o FindFrom(items, s, starts, IF m.end = i THEN i + 1 ELSE m.end)

\* the matches from the position from on, starts being the positions where
\* the pattern can match
FindFrom(items, s, starts, from) ==
    IF \A i \in starts : i < from THEN <<>>
    ELSE FindRest(items, s, starts, Min({j \in starts : j >= from}),
                  MatchFrom(items, s, Min({j \in starts : j >= from})))

FindIterLower(items, s) ==
    FindFrom(items, s, {i \in 1..(Len(s) + 1) : CanMatch(items, s, i)}, 1)

\* re.finditer with re.I: the non-overlapping matches, left to right
FindIter(items, text) == FindIterLower(items, Lower(text))

TagPos(m, tag) == m.tags[CHOOSE i \in 1..Len(m.tags) : m.tags[i][1] = tag][2]

\* the text of the group delimited by the marks from and to
Group(text, m, from, to) == SubSeq(text, TagPos(m, from), TagPos(m, to) - 1)

\* re.findall of a pattern with one group: the group's text in every match
Groups(text, ms) == [i \in 1..Len(ms) |-> Group(text, ms[i], "(", ")")]

FindAll(items, text) == Groups(text, FindIter(items, text))

\* re.match with re.I: a match at the start of the string
ReMatch(items, text) == CanMatch(items, Lower(text), 1)

(***************************************************************************)
(* patterns.py                                                             *)
(***************************************************************************)
\* \s (the vertical tab, which a TLA+ string cannot hold, left out)
Space == {" ", "\t", "\n", "\r", "\f"}

\* [ -~]: the printable ASCII characters (letters listed in lower case; the
\* backquote, which a TLA+ string cannot hold, left out)
Printable ==
    LET str == " !\"#$%&'()*+,-./:;<=>?@[\\]^_{|}~"
    IN  {Char(str, i) : i \in 1..Len(str)} \cup Letters \cup Digits

\* (?:[\s\n\"<]|$)
Terminator == Alt(<< <<One(Space \cup {"\"", "<"})>>, <<Eos>> >>)

\* [-._;()/:a-z0-9]
CrossrefSuffix == {"-", ".", "_", ";", "(", ")", "/", ":"} \cup Letters \cup Digits

\* the pattern DOI, compiled with (?xm) and used on lower-cased input
DOI ==
    << Opt(<<Mark("marker("), Lit("doi"), Cls({":", "/"} \cup Space, 0, 3),
             Mark("marker)")>>) >>
    \o <<Lit("10"), One({"."})>>
    \o <<Mark("registrant("), Cls(Digits, 2, 9), Mark("registrant)")>>
    \o <<One({":", "-", "/", "]"} \cup Space)>>
    \o <<Mark("suffix("), Plus(CrossrefSuffix), One(Letters \cup Digits), Mark("suffix)")>>
    \o <<Alt(<< <<One(Space \cup {"\"", "<", "."})>>, <<Eol>> >>)>>

\* doi_of_match with no separator put between registrant and suffix
doi_of_match_unseparated(low, m) ==
    "10." \o Group(low, m, "registrant(", "registrant)")
          \o Group(low, m, "suffix(", "suffix)")

\* the groups of the last match win: doi_meta.update(match.groupdict())
doi_of_match(low, m) ==
    "10." \o Group(low, m, "registrant(", "registrant)")
          \o "/" \o Group(low, m, "suffix(", "suffix)")

doi_of_matches(low, ms) == IF ms = <<>> THEN None ELSE doi_of_match(low, ms[Len(ms)])

standardise_lower(low) == doi_of_matches(low, FindIterLower(DOI, low))

standardise_doi(identifier) == standardise_lower(Lower(identifier))

\* (?:v\d+)?
Version == Opt(<<One({"v"}), Plus(Digits)>>)

\* (\d{4}\.\d+)
ArxivNumber == <<Mark("("), Cls(Digits, 4, 4), One({"."}), Plus(Digits), Mark(")")>>

arxiv2007_pattern == <<Bos>> \o ArxivNumber \o <<Version, Eos>>

\* 10\.\d{4}
DoiHead == <<Lit("10."), Cls(Digits, 4, 4)>>

\* 10\.\d{4,9}/[-._;()/:a-z0-9]+
CrossrefDoi == <<Lit("10."), Cls(Digits, 4, 9), One({"/"}), Plus(CrossrefSuffix)>>

doi_regexp ==
    << \* version 0
       <<Lit("doi"), Cls(Space \cup {".", ":"}, 0, 2), Mark("(")>> \o DoiHead
         \o <<Plus(Digits \cup {":", ".", "-", "/"} \cup Letters), Mark(")"), Terminator>>,
       \* version 1
       <<Mark("(")>> \o DoiHead
         \o <<Plus(Digits \cup {":", ".", "-", "/"} \cup Letters), Mark(")"), Terminator>>,
       \* version 2
       <<Mark("(")>> \o DoiHead
         \o <<Plus({":", ".", "-", "/"} \cup Letters), Plus({":", ".", "-"} \cup Digits),
              Mark(")"),
              Alt(<< <<One(Space \cup Letters \cup {"\"", "<"})>>, <<Eos>> >>)>>,
       \* version 3
       <<Lit("http"), Cls({"s"}, 0, 1), Lit("://"), Star(Printable),
         Lit("doi"), Star(Printable), One({"/"}), Mark("(")>> \o CrossrefDoi
         \o <<Mark(")"), Terminator>>,
       \* version 4
       <<Bos, Mark("(")>> \o CrossrefDoi \o <<Mark(")"), Eos>> >>

\* arxiv_regexp with its first pattern only, which asks for the word arXiv
arxiv_regexp_marked ==
    << <<Lit("arxiv"), Star(Space), One({":"}), Star(Space)>> \o ArxivNumber
         \o <<Version, Terminator>> >>

arxiv_regexp ==
    << \* version 0
       <<Lit("arxiv"), Star(Space), One({":"}), Star(Space)>> \o ArxivNumber
         \o <<Version, Terminator>>,
       \* version 1
       ArxivNumber \o <<Version, Lit(".pdf")>>,
       \* version 2
       <<Bos>> \o ArxivNumber \o <<Version, Eos>> >>

(***************************************************************************)
(* finders.py, first part: the validator                                   *)
(***************************************************************************)
\* NumberAttempts = 10 in validate_doi_web
MaxAttempts == 10

\* str.strip()
Strip(s) ==
    LET keep == {i \in 1..Len(s) : Char(s, i) \notin Space}
    IN  IF keep = {} THEN "" ELSE SubSeq(s, Min(keep), Max(keep))

\* s[0:n]
Prefix(s, n) == IF Len(s) < n THEN s ELSE SubSeq(s, 1, n)

\* An HTTP response of dx.doi.org: [status, text]. The test of line 49: a
\* status of 500 or more, a body that holds "503 Service Unavailable", or an
\* empty body.
Transient(resp) ==
    \/ resp.status >= 500
    \/ Contains(Lower(resp.text), Lower("503 Service Unavailable"))
    \/ resp.text = ""

\* doi_web_iteration with line 50 left out: a transient response costs no
\* attempt.
doi_web_iteration_no_decrement(attempts, resp) ==
    IF Transient(resp)
    THEN [NumberAttempts |-> attempts, returns |-> FALSE, value |-> None]
    ELSE [NumberAttempts |-> 0, returns |-> TRUE,
          value |-> IF ~Contains(Lower(resp.text), Lower("DOI Not Found"))
                    THEN resp.text ELSE None]

\* One pass of the while loop of validate_doi_web on the response resp:
\* the attempts left, whether the function returns, and what it returns.
doi_web_iteration(attempts, resp) ==
    IF Transient(resp)
    THEN [NumberAttempts |-> attempts - 1, returns |-> FALSE, value |-> None]
    ELSE [NumberAttempts |-> 0, returns |-> TRUE,
          value |-> IF ~Contains(Lower(resp.text), Lower("DOI Not Found"))
                    THEN resp.text ELSE None]

\* What validate_doi_web returns when the while loop ends without a return
\* statement having run: Python's implicit None.
doi_web_exhausted == None

\* web_exception answering None, as for an identifier that was not found
web_exception_none == None

\* What validate_doi_web and validate_arxivID_web return from their except
\* clause.
web_exception == MinusOne

\* validate_arxivID_web on what feedparser.parse returned: feed is the list
\* result.entries, each entry the number of fields it holds. entries[0] of an
\* empty list raises IndexError, which the except clause turns into -1.
validate_arxivID_web_on(feed) ==
    IF feed = <<>> THEN web_exception
    ELSE IF ~(feed[1] > 0) THEN None ELSE "<entry>"

\* validate_doi_result answering True where line 123 returns the record
validate_doi_result_flag(result) ==
    IF result = MinusOne THEN None
    ELSE IF result # None /\ Prefix(Strip(result), 5) = "@misc" THEN PyFalse
    ELSE IF Truthy(result) THEN PyTrue
    ELSE PyFalse

\* validate, after validate_doi_web returned result (lines 115-126)
validate_doi_result(result) ==
    IF result = MinusOne THEN None
    ELSE IF result # None /\ Prefix(Strip(result), 5) = "@misc" THEN PyFalse
    ELSE IF Truthy(result) THEN result
    ELSE PyFalse

\* validate, after validate_arxivID_web returned result (lines 137-145)
validate_arxiv_result(result) ==
    IF result = MinusOne THEN None
    ELSE IF Truthy(result) THEN result
    ELSE PyFalse

\* What validate answers without asking an authority.
Answer(value) == [web |-> "none", id |-> None, value |-> value]

\* validate asks the authority web about id.
Ask(web, id) == [web |-> web, id |-> id, value |-> None]

\* validate for what = 'doi', up to its network call (lines 107-130)
validate_doi_id(doi_id, webvalidation) ==
    IF doi_id # None
    THEN IF webvalidation THEN Ask("doi", doi_id) ELSE Answer(PyTrue)
    ELSE Answer(PyFalse)

validate_doi_local(identifier, webvalidation) ==
    validate_doi_id(standardise_doi(identifier), webvalidation)

\* validate for what = 'arxiv', up to its network call (lines 133-149)
validate_arxiv_local(identifier, webvalidation) ==
    IF ReMatch(arxiv2007_pattern, identifier)
    THEN IF webvalidation THEN Ask("arxiv", identifier) ELSE Answer(PyTrue)
    ELSE Answer(PyFalse)

\* validate past its first test (lines 106-151)
validate_nonempty(identifier, what, webvalidation) ==
    IF what = "doi" THEN validate_doi_local(identifier, webvalidation)
    ELSE IF what = "arxiv" THEN validate_arxiv_local(identifier, webvalidation)
    ELSE Answer(PyFalse)

\* validate_local with the test of line 104 left out
validate_local_no_empty_test(identifier, what, webvalidation) ==
    validate_nonempty(identifier, what, webvalidation)

\* validate_local with the structural tests of lines 111 and 133 left out
validate_local_no_structure_test(identifier, what, webvalidation) ==
    IF identifier = None \/ identifier = ""
    THEN Answer(None)
    ELSE IF what \in {"doi", "arxiv"}
    THEN IF webvalidation THEN Ask(what, identifier) ELSE Answer(PyTrue)
    ELSE Answer(PyFalse)

\* validate_local reading no configuration: the authority is always asked
validate_local_always_web(identifier, what, webvalidation) ==
    IF identifier = None \/ identifier = ""
    THEN Answer(None)
    ELSE validate_nonempty(identifier, what, TRUE)

\* validate up to its first network call: web names the authority to ask
\* ("none" when validate returns value without asking), id what to ask about.
validate_local(identifier, what, webvalidation) ==
    IF identifier = None \/ identifier = ""
    THEN Answer(None)
    ELSE validate_nonempty(identifier, what, webvalidation)

(***************************************************************************)
(* State                                                                   *)
(***************************************************************************)
VARIABLES
    config,          \* config.__params: the process-wide configuration
    vpc,             \* where the validate call in progress stands
    vcall,           \* its arguments [identifier, what]
    NumberAttempts,  \* the local variable of validate_doi_web
    nreq,            \* HTTP requests sent to dx.doi.org by this call
    nfeed,           \* feed queries sent to export.arxiv.org by this call
    transients,      \* transient responses this call received
    lastResp,        \* the last response this call received
    vresult,         \* what validate returned
    doc,             \* the document behind the handle
    world,           \* how the authorities and the search engine behave
    pc,              \* where pdf2doi_singlefile stands
    calls,           \* the results of its find_identifier calls so far
    result,          \* the last of them
    prev,            \* what the resolution just before this one returned
    invoked,         \* the functions each of its find_identifier calls called
    log,             \* what each of them did, event by event
    written,         \* the last call of add_found_identifier_to_metadata since
                     \* the last resolution
    target,          \* the directory pdf2doi is called on, as os.listdir lists it
    pdf_files,       \* its local variable pdf_files
    identifiers_found, \* its local variable identifiers_found
    bpc,             \* where pdf2doi stands on the directory
    returned,        \* what it returned
    attributes,      \* the attributes pdf2doi has set on the class config
    raw,             \* the string standardise_doi is first called with
    std_in,          \* the argument of its last call
    std_out,         \* what that call returned
    std_n            \* how many times it was called, each time on its last result

vvars == <<vpc, vcall, NumberAttempts, nreq, nfeed, transients, lastResp, vresult>>

pvars == <<doc, world, pc, calls, result, prev, invoked, attributes, log, written>>

bvars == <<target, pdf_files, identifiers_found, bpc, returned>>

svars == <<raw, std_in, std_out, std_n>>

vars == <<config, vvars, pvars, svars, bvars>>

\* config.__params of config.py (the settings the engine reads)
DefaultConfig ==
    [method_dxdoiorg |-> "application/citeproc+json",
     webvalidation |-> TRUE, websearch |-> TRUE, save_identifier_metadata |-> TRUE,
     numb_results_google_search |-> 6, N_characters_in_pdf |-> 1000]

\* the values of method_dxdoiorg that config.py documents
AcceptMethods ==
    {"application/citeproc+json", "text/bibliography; style=bibtex",
     "application/x-bibtex"}

\* the accept header validate_doi_web sends: its argument method, or the
\* configured one when the argument is None (as in the call made by validate)
accept_header(method, cfg) ==
    IF method = None THEN cfg.method_dxdoiorg ELSE method

NoResp == [status |-> 0, text |-> None]

\* What a function that answers a list, or None, returned: Absent for None,
\* Some(list) for the list, which is ListOf(the answer).
Absent == <<>>

Some(list) == <<list>>

ListOf(answer) == answer[1]

\* no document is being resolved
NoDocument ==
    [name |-> "", info |-> Absent, pypdf |-> Absent, textract |-> <<>>, title |-> None]

\* the world the resolver is not run in
NoWorld ==
    [doi |-> "down", records |-> {}, arxiv |-> "down", ids |-> {},
     search |-> "down", keyword |-> "", sites |-> <<>>]

\* the dictionary find_identifier returns; raised is set when it raises
Result(identifier, desc, info, path, method, raised) ==
    [identifier |-> identifier, identifier_type |-> desc, validation_info |-> info,
     path |-> path, method |-> method, raised |-> raised]

NoResult == Result(None, None, None, None, None, FALSE)

NoCall == [identifier |-> None, what |-> "doi"]

(***************************************************************************)
(* The validator, one step per network round trip                          *)
(***************************************************************************)
\* the candidates validate is called with
Candidates ==
    {None, "", "foo", "10.1103/PhysRev.47.777", "10.1103/physrev.47.777",
     "doi:10.1234/ab", "10.12", "10.1234", "2407.03393", "2407.03393v2",
     "24.1", "arXiv:2407.03393"}

\* 'doi', 'arxiv', and a kind validate does not know
Kinds == {"doi", "arxiv", "isbn"}

\* the record of a journal (not of an article) as dx.doi.org renders it on
\* request of a citeproc JSON document
JournalJson == "{\"type\":\"journal\",\"DOI\":\"10.1103/physrev\"}"

\* the same record on request of a BibTeX entry
JournalBibtex == " @misc{physrev, title={Physical Review}}"

\* the record of the journal with DOI 10.1103/physrev in the format the
\* accept header asks for
JournalRecord(accept) ==
    IF accept = "application/citeproc+json" THEN JournalJson ELSE JournalBibtex

\* what dx.doi.org may answer: a body with the status 200 or 404; an error
\* status, with a body that names it and with one that does not; an error
\* page and an empty body with the status 200
Responses ==
    [status : {200, 404},
     text : {"DOI Not Found", "{\"DOI\":\"10.1103/physrev.47.777\"}",
             JournalJson, JournalBibtex,
             "@article{epr, title={Can Quantum}}"}]
    \cup [status : {503},
          text : {"503 Service Unavailable", "@article{epr, title={Can Quantum}}"}]
    \cup [status : {200},
          text : {"", "<h1>503 service unavailable</h1>"}]

\* what feedparser.parse(url).entries may be: no entry, an entry with no
\* field, an entry with fields
Feeds == {<<>>, <<0>>, <<5>>}

InitValidate ==
    /\ config \in {[DefaultConfig EXCEPT !.webvalidation = b] : b \in BOOLEAN}
    /\ vpc = "idle"
    /\ vcall = NoCall
    /\ NumberAttempts = 0
    /\ nreq = 0
    /\ nfeed = 0
    /\ transients = 0
    /\ lastResp = NoResp
    /\ vresult = None
    /\ doc = NoDocument
    /\ world = NoWorld
    /\ pc = "idle"
    /\ calls = <<>>
    /\ result = NoResult
    /\ prev = NoResult
    /\ invoked = <<>>
    /\ attributes = Absent
    /\ log = <<>>
    /\ written = Absent
    /\ target = <<>>
    /\ pdf_files = <<>>
    /\ identifiers_found = <<>>
    /\ bpc = "idle"
    /\ returned = Absent
    /\ raw = None
    /\ std_in = None
    /\ std_out = None
    /\ std_n = 0

\* config.set('webvalidation', b) between two calls
SetWebvalidation(b) ==
    /\ vpc = "idle"
    /\ config' = [config EXCEPT !.webvalidation = b]
    /\ UNCHANGED <<bvars, svars, vvars, pvars>>

\* config.set('method_dxdoiorg', m) between two calls
SetMethod(m) ==
    /\ vpc = "idle"
    /\ config' = [config EXCEPT !.method_dxdoiorg = m]
    /\ UNCHANGED <<bvars, svars, vvars, pvars>>

\* validate(identifier, what) is called and runs up to its first network call
Validate(identifier, what) ==
    /\ vpc = "idle"
    /\ LET l == validate_local(identifier, what, config.webvalidation)
       IN  /\ vpc' = IF l.web = "doi" THEN "doi_web"
                     ELSE IF l.web = "arxiv" THEN "arxiv_web" ELSE "returned"
           /\ vresult' = l.value
           /\ NumberAttempts' = IF l.web = "doi" THEN MaxAttempts ELSE 0
    /\ vcall' = [identifier |-> identifier, what |-> what]
    /\ nreq' = 0
    /\ nfeed' = 0
    /\ transients' = 0
    /\ lastResp' = NoResp
    /\ UNCHANGED <<bvars, svars, config, pvars>>

\* requests.get returns resp: one pass of the while loop of validate_doi_web,
\* and, when the function returns, the rest of validate
DoiResponse(resp) ==
    /\ vpc = "doi_web"
    /\ NumberAttempts # 0
    /\ LET it == doi_web_iteration(NumberAttempts, resp)
       IN  /\ NumberAttempts' = it.NumberAttempts
           /\ IF it.returns
              THEN /\ vpc' = "returned"
                   /\ vresult' = validate_doi_result(it.value)
              ELSE IF it.NumberAttempts = 0
              THEN /\ vpc' = "returned"
                   /\ vresult' = validate_doi_result(doi_web_exhausted)
              ELSE /\ vpc' = "doi_web"
                   /\ vresult' = vresult
    /\ nreq' = nreq + 1
    /\ transients' = IF Transient(resp) THEN transients + 1 ELSE transients
    /\ lastResp' = resp
    /\ UNCHANGED <<bvars, svars, pvars, config, vcall, nfeed>>

\* requests.get raises: the except clause of validate_doi_web returns -1
DoiRaises ==
    /\ vpc = "doi_web"
    /\ NumberAttempts # 0
    /\ vpc' = "returned"
    /\ vresult' = validate_doi_result(web_exception)
    /\ nreq' = nreq + 1
    /\ lastResp' = [status |-> 0, text |-> "<raised>"]
    /\ UNCHANGED <<bvars, svars, pvars, config, vcall, NumberAttempts, nfeed, transients>>

\* feedparser.parse returns a feed with the entries feed
ArxivResponse(feed) ==
    /\ vpc = "arxiv_web"
    /\ vpc' = "returned"
    /\ vresult' = validate_arxiv_result(validate_arxivID_web_on(feed))
    /\ nfeed' = nfeed + 1
    /\ lastResp' = [status |-> 0, text |-> IF feed = <<>> THEN "<no entry>" ELSE "<feed>"]
    /\ UNCHANGED <<bvars, svars, pvars, config, vcall, NumberAttempts, nreq, transients>>

\* feedparser.parse raises
ArxivRaises ==
    /\ vpc = "arxiv_web"
    /\ vpc' = "returned"
    /\ vresult' = validate_arxiv_result(web_exception)
    /\ nfeed' = nfeed + 1
    /\ lastResp' = [status |-> 0, text |-> "<raised>"]
    /\ UNCHANGED <<bvars, svars, pvars, config, vcall, NumberAttempts, nreq, transients>>

\* the caller takes the result; the next call may start
ValidateReturn ==
    /\ vpc = "returned"
    /\ vpc' = "idle"
    /\ vcall' = NoCall
    /\ NumberAttempts' = 0
    /\ nreq' = 0
    /\ nfeed' = 0
    /\ transients' = 0
    /\ lastResp' = NoResp
    /\ vresult' = None
    /\ UNCHANGED <<bvars, svars, config, pvars>>

NextValidate ==
    \/ \E b \in BOOLEAN : SetWebvalidation(b)
    \/ \E m \in AcceptMethods : SetMethod(m)
    \/ \E identifier \in Candidates, what \in Kinds : Validate(identifier, what)
    \/ \E resp \in Responses : DoiResponse(resp)
    \/ DoiRaises
    \/ \E feed \in Feeds : ArxivResponse(feed)
    \/ ArxivRaises
    \/ ValidateReturn

SpecValidate == InitValidate /\ [][NextValidate]_vars

(***************************************************************************)
(* Properties of the validator                                             *)
(***************************************************************************)
\* the call in progress was made with an empty or absent candidate
EmptyCandidate == vcall.identifier = None \/ vcall.identifier = ""

\* the candidate of the call in progress passes the structural test of its
\* kind
StructurallyValid ==
    \/ vcall.what = "doi" /\ standardise_doi(vcall.identifier) # None
    \/ vcall.what = "arxiv" /\ ReMatch(arxiv2007_pattern, vcall.identifier)

\* a validate call has started and its result was not yet taken
InCall == vpc # "idle"

\* C5: validate of an empty or absent candidate returns None (the
\* indeterminate outcome) at once, whatever the kind and the configuration,
\* and no request is sent to any authority.
C5_EmptyCandidateIsIndeterminate ==
    (InCall /\ EmptyCandidate) =>
        /\ vpc = "returned"
        /\ vresult = None
        /\ nreq = 0
        /\ nfeed = 0

\* C5 witness: validate("", 'arxiv') has returned with web validation on
C5_Witness ==
    /\ vpc = "returned"
    /\ vcall = [identifier |-> "", what |-> "arxiv"]
    /\ config.webvalidation
    /\ vresult = None

\* C6: validate of a non-empty candidate that fails the structural test of
\* its kind, or whose kind is unknown, returns False at once and no request
\* is sent to any authority.
C6_StructuralFailureIsRejected ==
    (InCall /\ ~EmptyCandidate /\ ~StructurallyValid) =>
        /\ vpc = "returned"
        /\ vresult = PyFalse
        /\ nreq = 0
        /\ nfeed = 0

\* C6 witness: validate("10.12", 'doi') has returned False with web
\* validation on
C6_Witness ==
    /\ vpc = "returned"
    /\ vcall = [identifier |-> "10.12", what |-> "doi"]
    /\ config.webvalidation
    /\ vresult = PyFalse

\* C7: with web validation off, validate of a structurally valid candidate
\* returns True and sends no request to any authority.
C7_OfflineAcceptsStructure ==
    (InCall /\ ~config.webvalidation /\ ~EmptyCandidate /\ StructurallyValid) =>
        /\ vpc = "returned"
        /\ vresult = PyTrue
        /\ nreq = 0
        /\ nfeed = 0

\* C7 witness: validate("2407.03393v2", 'arxiv') has returned True with web
\* validation off
C7_Witness ==
    /\ vpc = "returned"
    /\ vcall = [identifier |-> "2407.03393v2", what |-> "arxiv"]
    /\ ~config.webvalidation
    /\ vresult = PyTrue

\* the bookkeeping of the retry loop in every state of a call
RetryBudget ==
    /\ nreq <= 10
    /\ transients <= nreq
    /\ vpc = "doi_web" =>
           /\ transients = nreq
           /\ NumberAttempts = 10 - nreq
           /\ NumberAttempts > 0

\* what one round trip to dx.doi.org does to the loop
RetryStep ==
    (vpc = "doi_web" /\ nreq' = nreq + 1) =>
        /\ (Transient(lastResp') /\ nreq' < 10) => vpc' = "doi_web"
        /\ (Transient(lastResp') /\ nreq' = 10) => vpc' = "returned"
        /\ ~Transient(lastResp') => vpc' = "returned"

\* C8: validate_doi_web sends at most 10 requests per candidate; each
\* transient response (status >= 500, a body holding "503 Service
\* Unavailable", an empty body) uses up exactly one attempt and is followed
\* by a retry while attempts are left; the first response that is not
\* transient ends the loop, with no further request.
C8_BoundedRetry == [] RetryBudget /\ [][RetryStep]_vars

\* C8 witness: the loop is still running after nine transient responses
C8_Witness ==
    /\ vpc = "doi_web"
    /\ nreq = 9
    /\ transients = 9
    /\ NumberAttempts = 1

\* C9: when all 10 attempts met a transient response, validate returns None
\* (indeterminate), not False.
C9_ExhaustionIsIndeterminate ==
    (vpc = "returned" /\ nreq = 10 /\ transients = 10) => vresult = None

\* the last response is a record: neither transient nor a not-found body
SuccessPayload ==
    /\ lastResp.text \notin {None, "<raised>"}
    /\ ~Transient(lastResp)
    /\ ~Contains(Lower(lastResp.text), Lower("DOI Not Found"))

\* the record is tagged as a collection-level record
MiscRecord == Prefix(Strip(lastResp.text), 5) = "@misc"

\* C10 as stated: k transient responses (0 <= k <= 9) followed by a success
\* payload p make validate return p after exactly k + 1 requests.
C10_RetryThenConfirmed ==
    (vpc = "returned" /\ vcall.what = "doi" /\ nreq > 0 /\ SuccessPayload) =>
        /\ vresult = lastResp.text
        /\ nreq = transients + 1
        /\ transients <= 9

\* C10 amended: k transient responses (0 <= k <= 9) followed by a success
\* payload p that does not start with the tag @misc make validate return p
\* after exactly k + 1 requests.
C10_RetryThenConfirmedUnlessMisc ==
    (vpc = "returned" /\ vcall.what = "doi" /\ nreq > 0 /\ SuccessPayload
        /\ ~MiscRecord) =>
        /\ vresult = lastResp.text
        /\ nreq = transients + 1
        /\ transients <= 9

\* C10 witness: nine transient responses, then the record, which validate
\* returns
C10_Witness ==
    /\ vpc = "returned"
    /\ nreq = 10
    /\ transients = 9
    /\ SuccessPayload
    /\ vresult = "@article{epr, title={Can Quantum}}"

(***************************************************************************)
(* The collaborators: the authorities, the search engine, the document     *)
(***************************************************************************)
\* A world w says how the collaborators outside the process behave:
\*   w.doi      "up", "down" (requests.get raises) or "busy" (always 503)
\*   w.records  the records dx.doi.org holds, each [doi, text]
\*   w.arxiv    "up" or "down" (feedparser.parse raises)
\*   w.ids      the identifiers export.arxiv.org holds
\*   w.search   "up" or "down" (googlesearch.search raises)
\*   w.keyword  the word the indexed sites are found by
\*   w.sites    the search results, each [url, body]; the body FetchRaises
\*              stands for a site whose download raises
FetchRaises == "<fetch raises>"

\* r = requests.get("http://dx.doi.org/" + doi) while dx.doi.org answers
DxDoiOrg(doi, w) ==
    IF w.doi = "busy"
    THEN [status |-> 503, text |-> "503 Service Unavailable"]
    ELSE IF \E r \in w.records : r.doi = doi
    THEN [status |-> 200, text |-> (CHOOSE r \in w.records : r.doi = doi).text]
    ELSE [status |-> 404, text |-> "DOI Not Found"]

\* feedparser.parse(url).entries while export.arxiv.org answers
ExportArxivOrg(arxivID, w) == IF Lower(arxivID) \in w.ids THEN <<5>> ELSE <<>>

\* search(query, stop=numb_results) while the search engine answers
Take(seq, n) == IF Len(seq) <= n THEN seq ELSE SubSeq(seq, 1, n)

search(query, numb_results, w) ==
    IF Contains(Lower(query), w.keyword) THEN Take(w.sites, numb_results) ELSE <<>>

\* the while loop of validate_doi_web against the world w
RECURSIVE doi_web_loop(_, _, _)
\* the loop after the pass it
doi_web_pass(it, doi, w) ==
    IF it.returns THEN it.value ELSE doi_web_loop(it.NumberAttempts, doi, w)

doi_web_loop(attempts, doi, w) ==
    IF attempts = 0 THEN doi_web_exhausted
    ELSE doi_web_pass(doi_web_iteration(attempts, DxDoiOrg(doi, w)), doi, w)

validate_doi_web(doi, w) ==
    IF w.doi = "down" THEN web_exception ELSE doi_web_loop(MaxAttempts, doi, w)

validate_arxivID_web(arxivID, w) ==
    IF w.arxiv = "down" THEN web_exception
    ELSE validate_arxivID_web_on(ExportArxivOrg(arxivID, w))

\* validate(identifier, what) as a whole, under the configuration cfg
\* validate from its first network call on, l being what validate_local
\* answered
validate_web(l, w) ==
    IF l.web = "doi" THEN validate_doi_result(validate_doi_web(l.id, w))
    ELSE IF l.web = "arxiv"
    THEN validate_arxiv_result(validate_arxivID_web(l.id, w))
    ELSE l.value

validate(identifier, what, cfg, w) ==
    validate_web(validate_local(identifier, what, cfg.webvalidation), w)

(***************************************************************************)
(* finders.py, low-level functions                                         *)
(***************************************************************************)
\* A text handed to find_identifier_in_text: a str, a bytes object that
\* decodes as UTF-8 to text, a bytes object that does not, or None.
Str(t) == [kind |-> "str", text |-> t]

Bytes(t) == [kind |-> "bytes", text |-> t]

BadBytes == [kind |-> "badbytes", text |-> ""]

NoneText == [kind |-> "none", text |-> ""]

\* The triple identifier, desc, info the finders return; raised is set when
\* the function raises instead of returning.
Found(identifier, desc, info) ==
    [identifier |-> identifier, desc |-> desc, info |-> info, raised |-> FALSE]

\* Nothing with a description left in the triple
Nothing_described == Found(None, "DOI", None)

Nothing == Found(None, None, None)

Raised == [identifier |-> None, desc |-> None, info |-> None, raised |-> TRUE]

RECURSIVE Flatten(_)
Flatten(seqs) == IF seqs = <<>> THEN <<>> ELSE Head(seqs) \o Flatten(Tail(seqs))

\* re.findall raises on a text that is no str and the except clause
\* answers [] (version counts from 1 here)
extract_doi_from_text(text, version) ==
    IF text.kind = "str" THEN FindAll(doi_regexp[version], text.text) ELSE <<>>

extract_arxivID_from_text(text, version) ==
    IF text.kind = "str" THEN FindAll(arxiv_regexp[version], text.text) ELSE <<>>

\* the identifiers ids as candidates of the kind what
Candidates_of(ids, what, desc) ==
    [i \in 1..Len(ids) |-> [identifier |-> ids[i], what |-> what, desc |-> desc]]

\* the candidates of one text in the order lines 270-284 validate them
candidates_in_text(text) ==
    Flatten([v \in 1..Len(doi_regexp) |->
                Candidates_of(extract_doi_from_text(text, v), "doi", "DOI")])
    \o
    Flatten([v \in 1..Len(arxiv_regexp) |->
                Candidates_of(extract_arxivID_from_text(text, v), "arxiv", "arxiv ID")])

\* what a loop does with what it found: r when r holds an identifier (or is
\* an exception on its way up), what the rest of the loop finds otherwise
OrElse(r, rest) == IF r.raised \/ Truthy(r.identifier) THEN r ELSE rest

\* Validated with every validation but False taken as a confirmation
Validated_unless_false(cand, validation) ==
    IF validation # PyFalse THEN Found(cand.identifier, cand.desc, validation)
    ELSE Nothing

\* lines 275-276 and 283-284: the candidate is returned when its validation
\* is truthy
Validated(cand, validation) ==
    IF Truthy(validation) THEN Found(cand.identifier, cand.desc, validation)
    ELSE Nothing

\* the first candidate from index i on that func_validate accepts
RECURSIVE first_validated(_, _, _, _)
first_validated(cands, i, cfg, w) ==
    IF i > Len(cands) THEN Nothing
    ELSE OrElse(Validated(cands[i],
                          validate(cands[i].identifier, cands[i].what, cfg, w)),
                first_validated(cands, i + 1, cfg, w))

\* text.decode() of line 268
Decoded(text) == IF text.kind = "bytes" THEN Str(text.text) ELSE text

\* the for loop of line 265 from the text of index i on
RECURSIVE scan_texts(_, _, _, _)
scan_texts(texts, i, cfg, w) ==
    IF i > Len(texts) THEN Nothing
    ELSE IF texts[i].kind = "badbytes" THEN Raised
    ELSE OrElse(first_validated(candidates_in_text(Decoded(texts[i])), 1, cfg, w),
                scan_texts(texts, i + 1, cfg, w))

find_identifier_in_text(texts, cfg, w) == scan_texts(texts, 1, cfg, w)

\* the for loop of line 220 from the result of index i on; an exception
\* ends the function with None, None, None (lines 232-234)
RECURSIVE scan_results(_, _, _, _)
scan_results(sites, i, cfg, w) ==
    IF i > Len(sites) THEN Nothing
    ELSE OrElse(find_identifier_in_text(<<Str(sites[i].url)>>, cfg, w),
                IF sites[i].body = FetchRaises THEN Nothing
                ELSE OrElse(find_identifier_in_text(<<Str(sites[i].body)>>, cfg, w),
                            scan_results(sites, i + 1, cfg, w)))

find_identifier_in_google_search(query, numb_results, cfg, w) ==
    IF w.search = "down" THEN Nothing
    ELSE scan_results(search(query, numb_results, w), 1, cfg, w)

(***************************************************************************)
(* The document                                                            *)
(***************************************************************************)
\* A document d is what the libraries make of the file behind the handle:
\*   d.name      file.name
\*   d.info      what get_pdf_info returns: Absent, or Some(the document
\*               information as a sequence of [key, value], value a text)
\*   d.pypdf     what get_pdf_text(file, 'pypdf') returns: Absent, or
\*               Some(the texts of the pages)
\*   d.textract  what get_pdf_text(file, 'textract') returns: <<>>, or one
\*               text, a bytes object when only the call of line 404 worked
\*   d.title     what pdftitle.get_title_from_io returns: a str,
\*               TitleRaises when it raises, None when it is no str
TitleRaises == "<pdftitle raises>"

get_pdf_info(d) == d.info

get_pdf_text(d, reader) ==
    IF reader = "pypdf" THEN d.pypdf
    ELSE IF reader = "textract" THEN Some(d.textract)
    ELSE Some(<<>>)

\* os.path.basename on a POSIX path
basename(path) ==
    LET slashes == {i \in 1..Len(path) : Char(path, i) = "/"}
    IN  IF slashes = {} THEN path ELSE SubSeq(path, Max(slashes) + 1, Len(path))

\* len(s.split())
WordCount(s) ==
    Cardinality({i \in 1..Len(s) :
                    /\ Char(s, i) \notin Space
                    /\ (i = 1 \/ Char(s, i - 1) \in Space)})

RECURSIVE SortedDescending(_)
SortedDescending(S) ==
    IF S = {} THEN <<>> ELSE <<Max(S)>> \o SortedDescending(S \ {Max(S)})

\* list(reversed(list(accumulate(text.split('.'), ...)))): text cut before
\* each of its dots, the longest first, after text itself
strip_possible_extensions(text) ==
    LET ends == {i - 1 : i \in {j \in 1..Len(text) : Char(text, j) = "."}}
                    \cup {Len(text)}
        order == SortedDescending(ends)
    IN  [i \in 1..Len(order) |-> SubSeq(text, 1, order[i])]

\* titles.sort(key=len, reverse=True): the longest first, equal lengths in
\* their former order
RECURSIVE sort_by_len(_)
sort_by_len(titles) ==
    IF titles = <<>> THEN <<>>
    ELSE LET longest == Max({Len(titles[i]) : i \in 1..Len(titles)})
             first == Min({i \in 1..Len(titles) : Len(titles[i]) = longest})
         IN  <<titles[first]>>
             \o sort_by_len(SubSeq(titles, 1, first - 1)
                            \o SubSeq(titles, first + 1, Len(titles)))

\* find_possible_titles: Absent, or Some(the list of titles)
find_possible_titles(d) ==
    LET title == IF d.title = TitleRaises THEN "" ELSE d.title
        info == get_pdf_info(d)
        own == IF title # None /\ Len(Strip(title)) > 12 THEN <<title>> ELSE <<>>
        keyed == SelectSeq(ListOf(info), LAMBDA e :
                    /\ Contains(Lower(e.key), "title")
                    /\ e.value.kind = "str"
                    /\ Len(Strip(e.value.text)) > 12
                    /\ WordCount(e.value.text) > 3)
        named == IF Len(Strip(basename(d.name))) > 30
                 THEN <<basename(d.name)>> ELSE <<>>
    IN  IF title = None THEN Absent
        ELSE IF info = Absent \/ info = Some(<<>>) THEN Absent
        ELSE Some(own \o [i \in 1..Len(keyed) |-> keyed[i].value.text] \o named)

\* writer.add_metadata({'/identifier': identifier}) on top of the document
\* information: the key is replaced where it stands, or added at the end
add_metadata(info, key, value) ==
    IF \E i \in 1..Len(info) : info[i].key = key
    THEN [i \in 1..Len(info) |->
            IF info[i].key = key THEN [key |-> key, value |-> value] ELSE info[i]]
    ELSE Append(info, [key |-> key, value |-> value])

\* a value of the document information that is neither a str nor a bytes
\* object (a number, an array)
NotAString == [kind |-> "object", text |-> ""]

\* writer.add_metadata(metadata) of line 462: the information the writer
\* holds afterwards. It converts every value before it takes any, and raises
\* on a value that is neither str nor bytes; the except clause of line 463
\* goes on with a writer that holds nothing of metadata. (The entry
\* '/Producer' the writer starts with is left out.)
copied_metadata(metadata) ==
    IF \A i \in 1..Len(metadata) : metadata[i].value.kind \in {"str", "bytes", "badbytes"}
    THEN metadata ELSE <<>>

\* add_found_identifier_to_metadata on one file: the document afterwards. A
\* document whose information cannot be read is left as it is (lines
\* 451-456 and 474-478).
add_found_identifier_to_metadata(d, identifier) ==
    IF d.info = Absent THEN d
    ELSE [d EXCEPT !.info =
              Some(add_metadata(copied_metadata(ListOf(d.info)),
                                "/identifier", Str(identifier)))]

(***************************************************************************)
(* finders.py, high-level functions                                        *)
(***************************************************************************)
reader_libraries == <<"PyPdf", "textract">>

KeysNotToUse == {"/wps-journaldoi"}

\* pdfinfo[key]
InfoValue(info, key) ==
    info[CHOOSE i \in 1..Len(info) : info[i].key = key].value

\* the for loop of line 571 from the key of index i on; deleted holds the
\* keys line 577 took out of pdfinfo
RECURSIVE scan_keys(_, _, _, _, _, _)
scan_keys(Keys, i, deleted, pdfinfo, cfg, w) ==
    IF i > Len(Keys) THEN Nothing
    ELSE LET key == Keys[i]
         IN  IF /\ \E j \in 1..Len(pdfinfo) : pdfinfo[j].key = key
                /\ key \notin deleted
                /\ Lower(key) \notin KeysNotToUse
             THEN OrElse(find_identifier_in_text(<<InfoValue(pdfinfo, key)>>, cfg, w),
                         scan_keys(Keys, i + 1, deleted \cup {key}, pdfinfo, cfg, w))
             ELSE scan_keys(Keys, i + 1, deleted, pdfinfo, cfg, w)

\* list(pdfinfo.keys())
InfoKeys(pdfinfo) == [i \in 1..Len(pdfinfo) |-> pdfinfo[i].key]

find_identifier_in_pdf_info(d, keysToCheckFirst, cfg, w) ==
    IF get_pdf_info(d) = Absent \/ get_pdf_info(d) = Some(<<>>) THEN Nothing
    ELSE scan_keys(keysToCheckFirst \o InfoKeys(ListOf(get_pdf_info(d))),
                   1, {}, ListOf(get_pdf_info(d)), cfg, w)

\* the strs texts as texts
Strs(texts) == [i \in 1..Len(texts) |-> Str(texts[i])]

find_identifier_in_filename(d, cfg, w) ==
    find_identifier_in_text(
        Strs(<<basename(d.name)>> \o strip_possible_extensions(basename(d.name))),
        cfg, w)

\* the for loop of line 618 from the reader of index i on
RECURSIVE scan_readers(_, _, _, _)
\* lines 622-623: what is no list becomes a list of one element
AsList(got) == IF got = Absent THEN <<NoneText>> ELSE ListOf(got)

\* lines 624-631 on the texts texts
find_identifier_in_texts_read(texts, cfg, w) ==
    IF texts # <<>> THEN find_identifier_in_text(texts, cfg, w) ELSE Nothing

scan_readers(d, i, cfg, w) ==
    IF i > Len(reader_libraries) THEN Nothing
    ELSE OrElse(find_identifier_in_texts_read(
                    AsList(get_pdf_text(d, Lower(reader_libraries[i]))), cfg, w),
                scan_readers(d, i + 1, cfg, w))

find_identifier_in_pdf_text(d, cfg, w) == scan_readers(d, 1, cfg, w)

\* the for loop of line 650 from the title of index i on
RECURSIVE scan_titles(_, _, _, _)
scan_titles(titles, i, cfg, w) ==
    IF i > Len(titles) THEN Nothing
    ELSE OrElse(find_identifier_in_google_search(
                    titles[i], cfg.numb_results_google_search, cfg, w),
                scan_titles(titles, i + 1, cfg, w))

\* lines 643-660 on the titles find_possible_titles returned
find_identifier_by_googling(titles, cfg, w) ==
    IF titles = Absent \/ titles = Some(<<>>) THEN Nothing
    ELSE IF cfg.websearch = FALSE THEN Nothing
    ELSE scan_titles(sort_by_len(ListOf(titles)), 1, cfg, w)

find_identifier_by_googling_title(d, cfg, w) ==
    find_identifier_by_googling(find_possible_titles(d), cfg, w)

\* "".join(text) on a list of str
RECURSIVE Join(_)
Join(texts) == IF texts = <<>> THEN "" ELSE Head(texts).text \o Join(Tail(texts))

\* text.replace(r, " ") for r in "\n", "\r", "\t" (lines 687-688); line 686
\* changes no text of this model, whose characters are all ASCII
RECURSIVE Unfold(_)
Unfold(text) ==
    IF text = "" THEN ""
    ELSE (IF Char(text, 1) \in {"\n", "\r", "\t"} THEN " " ELSE Char(text, 1))
         \o Unfold(SubSeq(text, 2, Len(text)))

\* lines 686-697 on the str text: the search with its first characters
search_first_characters(text, numb_results, numb_characters, cfg, w) ==
    IF text = "" THEN Nothing
    ELSE find_identifier_in_google_search(Prefix(text, numb_characters),
                                          numb_results, cfg, w)

\* lines 678-697 on what get_pdf_text returned
first_characters_of(got, numb_results, numb_characters, cfg, w) ==
    IF got = Absent \/ got = Some(<<>>) THEN Nothing
    ELSE IF \E j \in 1..Len(ListOf(got)) : ListOf(got)[j].kind # "str" THEN Raised
    ELSE search_first_characters(Unfold(Join(ListOf(got))),
                                 numb_results, numb_characters, cfg, w)

\* the for loop of line 675 from the reader of index i on
RECURSIVE scan_first_characters(_, _, _, _, _, _)
scan_first_characters(d, i, numb_results, numb_characters, cfg, w) ==
    IF i > Len(reader_libraries) THEN Nothing
    ELSE OrElse(first_characters_of(get_pdf_text(d, Lower(reader_libraries[i])),
                                    numb_results, numb_characters, cfg, w),
                scan_first_characters(d, i + 1, numb_results, numb_characters, cfg, w))

\* the configuration when finders.py was imported: the default values of
\* numb_results and numb_characters (line 662) are taken from it
ImportConfig == DefaultConfig

find_identifier_by_googling_first_N_characters_in_pdf(d, cfg, w) ==
    IF cfg.websearch = FALSE THEN Nothing
    ELSE scan_first_characters(d, 1, ImportConfig.numb_results_google_search,
                               ImportConfig.N_characters_in_pdf, cfg, w)

Methods ==
    <<"document_infos", "filename", "document_text", "title_google",
      "first_N_characters_google">>

\* finder_methods[method](file, func_validate, **kwargs)
finder_methods(method, d, keysToCheckFirst, cfg, w) ==
    CASE method = "document_infos" ->
            find_identifier_in_pdf_info(d, keysToCheckFirst, cfg, w)
      [] method = "document_text" -> find_identifier_in_pdf_text(d, cfg, w)
      [] method = "filename" -> find_identifier_in_filename(d, cfg, w)
      [] method = "title_google" -> find_identifier_by_googling_title(d, cfg, w)
      [] method = "first_N_characters_google" ->
            find_identifier_by_googling_first_N_characters_in_pdf(d, cfg, w)

\* lines 537-539 on the triple r
ResultOf(r, d, method) ==
    Result(r.identifier, r.desc, r.info, IF r.raised THEN None ELSE d.name,
           method, r.raised)

find_identifier(d, method, keysToCheckFirst, cfg, w) ==
    IF \A i \in 1..Len(Methods) : Methods[i] # method
    THEN Result(None, None, None, None, method, TRUE)
    ELSE ResultOf(finder_methods(method, d, keysToCheckFirst, cfg, w), d, method)

(***************************************************************************)
(* finders.py: the functions each method calls                             *)
(***************************************************************************)
\* find_identifier_in_pdf_info: get_pdf_info, and find_identifier_in_text on
\* the first value whose key may be used (lines 565-573)
called_in_pdf_info(d) ==
    {"get_pdf_info"}
    \cup IF /\ get_pdf_info(d) # Absent
             /\ \E i \in 1..Len(ListOf(get_pdf_info(d))) :
                    Lower(ListOf(get_pdf_info(d))[i].key) \notin KeysNotToUse
          THEN {"find_identifier_in_text"} ELSE {}

\* find_identifier_in_pdf_text: get_pdf_text, and find_identifier_in_text on
\* the first texts that are no empty list (lines 618-626)
called_in_pdf_text(d) ==
    {"get_pdf_text"}
    \cup IF \E i \in 1..Len(reader_libraries) :
                AsList(get_pdf_text(d, Lower(reader_libraries[i]))) # <<>>
          THEN {"find_identifier_in_text"} ELSE {}

\* find_identifier_by_googling_title: find_possible_titles (line 642), and
\* find_identifier_in_google_search when there are titles and the web search
\* is not disabled (lines 643-652)
called_by_googling_title(titles, cfg) ==
    {"find_possible_titles"}
    \cup IF titles # Absent /\ titles # Some(<<>>) /\ cfg.websearch # FALSE
          THEN {"find_identifier_in_google_search"} ELSE {}

\* the readers' loop of find_identifier_by_googling_first_N_characters_in_pdf
\* from the reader of index i on: whether it comes to the search of line 697
RECURSIVE searches_first_characters(_, _)
searches_first_characters(d, i) ==
    IF i > Len(reader_libraries) THEN FALSE
    ELSE LET got == get_pdf_text(d, Lower(reader_libraries[i]))
         IN  IF got = Absent \/ got = Some(<<>>)
             THEN searches_first_characters(d, i + 1)
             ELSE IF \E j \in 1..Len(ListOf(got)) : ListOf(got)[j].kind # "str"
             THEN FALSE
             ELSE IF Unfold(Join(ListOf(got))) = ""
             THEN searches_first_characters(d, i + 1)
             ELSE TRUE

\* find_identifier_by_googling_first_N_characters_in_pdf: nothing when the
\* web search is disabled (lines 671-673), get_pdf_text otherwise, and
\* find_identifier_in_google_search on the first text that is not empty
called_by_googling_first_N_characters_in_pdf(d, cfg) ==
    IF cfg.websearch = FALSE THEN {}
    ELSE {"get_pdf_text"}
         \cup IF searches_first_characters(d, 1)
               THEN {"find_identifier_in_google_search"} ELSE {}

\* the functions of finders.py that the function finder_methods[method]
\* calls on the document d
functions_called(method, d, cfg) ==
    CASE method = "document_infos" -> called_in_pdf_info(d)
      [] method = "filename" -> {"find_identifier_in_text"}
      [] method = "document_text" -> called_in_pdf_text(d)
      [] method = "title_google" ->
            called_by_googling_title(find_possible_titles(d), cfg)
      [] method = "first_N_characters_google" ->
            called_by_googling_first_N_characters_in_pdf(d, cfg)

(***************************************************************************)
(* finders.py: what each method does, event by event                       *)
(***************************************************************************)
\* An event of a find_identifier call:
\*   "key"       find_identifier_in_pdf_info comes to the value of the key text
\*   "text"      find_identifier_in_text comes to the text text
\*   "validate"  func_validate(text, what) is called on a match of the
\*               pattern of index version and returns value
\*   "search"    search(text, stop=n) is called
\*   "get"       requests.get(text) is called on a search result
\*   "raise"     an exception leaves the method
Event(op, text, what, version, value, n) ==
    [op |-> op, text |-> text, what |-> what, version |-> version,
     value |-> value, n |-> n]

KeyEvent(key) == Event("key", key, None, 0, None, 0)

TextEvent(text) == Event("text", text.text, None, 0, None, 0)

ValidateEvent(cand, version, validation) ==
    Event("validate", cand.identifier, cand.what, version, validation, 0)

SearchEvent(query, numb_results) == Event("search", query, None, 0, None, numb_results)

GetEvent(url) == Event("get", url, None, 0, None, 0)

RaiseEvent == Event("raise", None, None, 0, None, 0)

\* the events evs end the function that makes them: the last of them is a
\* validation that is truthy (a return statement) or an exception
Ends(evs) ==
    /\ evs # <<>>
    /\ \/ evs[Len(evs)].op = "raise"
       \/ evs[Len(evs)].op = "validate" /\ Truthy(evs[Len(evs)].value)

\* the events evs, and the events rest of what follows in the code unless evs
\* end the function
AndThen(evs, rest) == IF Ends(evs) THEN evs ELSE evs \o rest

\* the loop of lines 272-276 (281-284) from the candidate of index i on
RECURSIVE validation_events(_, _, _, _, _)
validation_events(cands, version, i, cfg, w) ==
    IF i > Len(cands) THEN <<>>
    ELSE AndThen(<<ValidateEvent(cands[i], version,
                                 validate(cands[i].identifier, cands[i].what, cfg, w))>>,
                 validation_events(cands, version, i + 1, cfg, w))

\* doi_events with the patterns tried from the last one to the first
RECURSIVE doi_events_last_first(_, _, _, _)
doi_events_last_first(text, v, cfg, w) ==
    IF v > Len(doi_regexp) THEN <<>>
    ELSE AndThen(validation_events(
                     Candidates_of(extract_doi_from_text(text, Len(doi_regexp) + 1 - v),
                                   "doi", "DOI"),
                     Len(doi_regexp) + 1 - v, 1, cfg, w),
                 doi_events_last_first(text, v + 1, cfg, w))

\* the loop of line 270 from the pattern of index v on
RECURSIVE doi_events(_, _, _, _)
doi_events(text, v, cfg, w) ==
    IF v > Len(doi_regexp) THEN <<>>
    ELSE AndThen(validation_events(
                     Candidates_of(extract_doi_from_text(text, v), "doi", "DOI"),
                     v, 1, cfg, w),
                 doi_events(text, v + 1, cfg, w))

\* the loop of line 279 from the pattern of index v on
RECURSIVE arxiv_events(_, _, _, _)
arxiv_events(text, v, cfg, w) ==
    IF v > Len(arxiv_regexp) THEN <<>>
    ELSE AndThen(validation_events(
                     Candidates_of(extract_arxivID_from_text(text, v), "arxiv", "arxiv ID"),
                     v, 1, cfg, w),
                 arxiv_events(text, v + 1, cfg, w))

\* lines 267-284 on one text
text_events(text, cfg, w) ==
    <<TextEvent(text)>>
    \o AndThen(doi_events(text, 1, cfg, w), arxiv_events(text, 1, cfg, w))

\* find_identifier_in_text: the loop of line 265 from the text of index i on
RECURSIVE texts_events(_, _, _, _)
texts_events(texts, i, cfg, w) ==
    IF i > Len(texts) THEN <<>>
    ELSE IF texts[i].kind = "badbytes" THEN <<RaiseEvent>>
    ELSE AndThen(text_events(Decoded(texts[i]), cfg, w),
                 texts_events(texts, i + 1, cfg, w))

\* results_events with every page fetched before its URL is scanned
RECURSIVE results_events_fetch_first(_, _, _, _)
results_events_fetch_first(sites, i, cfg, w) ==
    IF i > Len(sites) THEN <<>>
    ELSE <<GetEvent(sites[i].url)>>
         \o IF sites[i].body = FetchRaises THEN <<>>
            ELSE AndThen(texts_events(<<Str(sites[i].url)>>, 1, cfg, w),
                         AndThen(texts_events(<<Str(sites[i].body)>>, 1, cfg, w),
                                 results_events_fetch_first(sites, i + 1, cfg, w)))

\* the loop of line 220 from the result of index i on: the URL is scanned,
\* then the page is fetched and scanned; a download that raises ends the
\* function (lines 232-234)
RECURSIVE results_events(_, _, _, _)
results_events(sites, i, cfg, w) ==
    IF i > Len(sites) THEN <<>>
    ELSE AndThen(texts_events(<<Str(sites[i].url)>>, 1, cfg, w),
                 <<GetEvent(sites[i].url)>>
                 \o IF sites[i].body = FetchRaises THEN <<>>
                    ELSE AndThen(texts_events(<<Str(sites[i].body)>>, 1, cfg, w),
                                 results_events(sites, i + 1, cfg, w)))

\* find_identifier_in_google_search
google_search_events(query, numb_results, cfg, w) ==
    <<SearchEvent(query, numb_results)>>
    \o IF w.search = "down" THEN <<>>
       ELSE results_events(search(query, numb_results, w), 1, cfg, w)

\* find_identifier_in_pdf_info: the loop of line 571 from the key of index i
\* on
RECURSIVE keys_events(_, _, _, _, _, _)
keys_events(Keys, i, deleted, pdfinfo, cfg, w) ==
    IF i > Len(Keys) THEN <<>>
    ELSE IF /\ \E j \in 1..Len(pdfinfo) : pdfinfo[j].key = Keys[i]
            /\ Keys[i] \notin deleted
            /\ Lower(Keys[i]) \notin KeysNotToUse
         THEN AndThen(<<KeyEvent(Keys[i])>>
                      \o texts_events(<<InfoValue(pdfinfo, Keys[i])>>, 1, cfg, w),
                      keys_events(Keys, i + 1, deleted \cup {Keys[i]}, pdfinfo, cfg, w))
         ELSE keys_events(Keys, i + 1, deleted, pdfinfo, cfg, w)

pdf_info_events(d, keysToCheckFirst, cfg, w) ==
    IF get_pdf_info(d) = Absent \/ get_pdf_info(d) = Some(<<>>) THEN <<>>
    ELSE keys_events(keysToCheckFirst \o InfoKeys(ListOf(get_pdf_info(d))),
                     1, {}, ListOf(get_pdf_info(d)), cfg, w)

filename_events(d, cfg, w) ==
    texts_events(Strs(<<basename(d.name)>> \o strip_possible_extensions(basename(d.name))),
                 1, cfg, w)

\* find_identifier_in_pdf_text: the loop of line 618 from the reader of
\* index i on
RECURSIVE pdf_text_events(_, _, _, _)
pdf_text_events(d, i, cfg, w) ==
    IF i > Len(reader_libraries) THEN <<>>
    ELSE AndThen(texts_events(AsList(get_pdf_text(d, Lower(reader_libraries[i]))),
                              1, cfg, w),
                 pdf_text_events(d, i + 1, cfg, w))

\* find_identifier_by_googling_title: the loop of line 650 from the title of
\* index i on
RECURSIVE titles_events(_, _, _, _)
titles_events(titles, i, cfg, w) ==
    IF i > Len(titles) THEN <<>>
    ELSE AndThen(google_search_events(titles[i], cfg.numb_results_google_search, cfg, w),
                 titles_events(titles, i + 1, cfg, w))

googling_title_events(titles, cfg, w) ==
    IF titles = Absent \/ titles = Some(<<>>) \/ cfg.websearch = FALSE THEN <<>>
    ELSE titles_events(sort_by_len(ListOf(titles)), 1, cfg, w)

\* find_identifier_by_googling_first_N_characters_in_pdf: lines 678-697 on
\* what get_pdf_text returned
first_characters_events(got, numb_results, numb_characters, cfg, w) ==
    IF got = Absent \/ got = Some(<<>>) THEN <<>>
    ELSE IF \E j \in 1..Len(ListOf(got)) : ListOf(got)[j].kind # "str" THEN <<RaiseEvent>>
    ELSE IF Unfold(Join(ListOf(got))) = "" THEN <<>>
    ELSE google_search_events(Prefix(Unfold(Join(ListOf(got))), numb_characters),
                              numb_results, cfg, w)

\* the loop of line 675 from the reader of index i on
RECURSIVE readers_events(_, _, _, _, _, _)
readers_events(d, i, numb_results, numb_characters, cfg, w) ==
    IF i > Len(reader_libraries) THEN <<>>
    ELSE AndThen(first_characters_events(get_pdf_text(d, Lower(reader_libraries[i])),
                                         numb_results, numb_characters, cfg, w),
                 readers_events(d, i + 1, numb_results, numb_characters, cfg, w))

googling_first_N_characters_events(d, cfg, w) ==
    IF cfg.websearch = FALSE THEN <<>>
    ELSE readers_events(d, 1, ImportConfig.numb_results_google_search,
                        ImportConfig.N_characters_in_pdf, cfg, w)

\* what finder_methods[method](file, func_validate, **kwargs) does
events(method, d, keysToCheckFirst, cfg, w) ==
    CASE method = "document_infos" -> pdf_info_events(d, keysToCheckFirst, cfg, w)
      [] method = "filename" -> filename_events(d, cfg, w)
      [] method = "document_text" -> pdf_text_events(d, 1, cfg, w)
      [] method = "title_google" ->
            googling_title_events(find_possible_titles(d), cfg, w)
      [] method = "first_N_characters_google" ->
            googling_first_N_characters_events(d, cfg, w)

(***************************************************************************)
(* main.py                                                                 *)
(***************************************************************************)
\* the keyword arguments pdf2doi_singlefile gives to each method
MethodArguments(method) ==
    IF method = "document_infos" THEN <<"/doi", "/identfier">> ELSE <<>>

\* pdf2doi_singlefile_then without the tests of result['identifier']: every
\* method is called, whatever the ones before it found
pdf2doi_singlefile_then_all(method, found) ==
    CASE method = "document_infos" -> "filename"
      [] method = "filename" -> "document_text"
      [] method = "document_text" -> "title_google"
      [] method = "title_google" -> "first_N_characters_google"
      [] OTHER -> "returned"

\* pdf2doi_singlefile after the method method returned the result found:
\* the method to call next, or "returned" when the function returns found
pdf2doi_singlefile_then(method, found) ==
    IF Truthy(found.identifier) THEN "returned"
    ELSE CASE method = "document_infos" -> "filename"
           [] method = "filename" -> "document_text"
           [] method = "document_text" -> "title_google"
           [] method = "title_google" -> "first_N_characters_google"
           [] OTHER -> "returned"

(***************************************************************************)
(* The resolver, one step per find_identifier call                         *)
(***************************************************************************)
Doi1 == "10.1103/physrev.47.777"

Doi2 == "10.1234/abcd"

Title1 == "Can Quantum Mechanics Be Complete"

Entry(key, text) == [key |-> key, value |-> Str(text)]

Document(name, info, pypdf, textract, title) ==
    [name |-> name, info |-> info, pypdf |-> pypdf, textract |-> textract,
     title |-> title]

\* the documents resolved
Documents ==
    { \* the identifier was written back before
      Document("docs/epr.pdf",
               Some(<<Entry("/Title", Title1), Entry("/identifier", Doi1)>>),
               Some(<<Str("foo")>>), <<Str("foo")>>, Title1),
      \* the same, after a field that cites another paper
      Document("docs/epr.pdf",
               Some(<<Entry("/Subject", "see doi:10.1234/abcd"),
                      Entry("/identifier", Doi1)>>),
               Some(<<Str("foo")>>), <<Str("foo")>>, ""),
      \* the same, with a '/doi' field that names another paper
      Document("docs/epr.pdf",
               Some(<<Entry("/identifier", Doi1), Entry("/doi", Doi2)>>),
               Some(<<Str("foo")>>), <<Str("foo")>>, ""),
      \* unreadable, named after its arXiv identifier
      Document("docs/2407.03393.pdf", Absent, Absent, <<>>, TitleRaises),
      \* named after the second version of the same preprint
      Document("2407.03393v2.pdf", Some(<<Entry("/Producer", "foo")>>),
               Some(<<Str("foo")>>), <<>>, ""),
      \* the DOI is printed on the first page; the metadata name the journal
      Document("epr.pdf", Some(<<Entry("/wps-journaldoi", "10.5555/jrnl")>>),
               Some(<<Str("Phys. Rev. 47, 777\ndoi:10.1103/PhysRev.47.777")>>),
               <<>>, ""),
      \* only the call of line 404 extracts the text
      Document("scan.pdf", Some(<<>>), Some(<<>>), <<Bytes("foo")>>, None),
      \* the same, with text that is not UTF-8
      Document("scan.pdf", Absent, Absent, <<BadBytes>>, TitleRaises),
      \* nothing but a title
      Document("epr.pdf", Some(<<Entry("/Title", Title1)>>),
               Some(<<Str("foo")>>), <<Str("foo")>>, Title1),
      \* nothing but the text foo
      Document("foo.pdf", Some(<<Entry("/Producer", "foo")>>),
               Some(<<Str("foo")>>), <<Str("foo")>>, "foo"),
      \* the first page cites another paper before it gives the DOI
      Document("refs.pdf", Some(<<>>),
               Some(<<Str("10.1234/abcd doi:10.1103/PhysRev.47.777 arXiv:2407.03393v1 ")>>),
               <<>>, ""),
      \* an old file: one value of its information is no string
      Document("old.pdf",
               Some(<<Entry("/Author", "A. Einstein"),
                      [key |-> "/Revision", value |-> NotAString]>>),
               Some(<<Str("foo")>>), <<>>, ""),
      \* nothing but text the search engine knows
      Document("notes.pdf", Some(<<>>), Some(<<Str("quantum\ntheory")>>), <<>>, ""),
      \* two pages, the form feed between them left in by the extraction
      Document("pages.pdf", Some(<<>>), Some(<<Str("quantum\ftheory")>>), <<>>, "") }

Records ==
    { [doi |-> Doi1, text |-> "@article{epr}"],
      [doi |-> Doi2, text |-> "@article{abcd}"],
      [doi |-> "10.5555/jrnl", text |-> " @misc{jrnl}"] }

\* the worlds the resolver runs in
Worlds ==
    { \* everything answers
      [doi |-> "up", records |-> Records, arxiv |-> "up", ids |-> {"2407.03393"},
       search |-> "up", keyword |-> "quantum",
       sites |-> << [url |-> "http://x.org/a", body |-> "no identifier"],
                    [url |-> "http://x.org/10.1103/PhysRev.47.777", body |-> ""] >>],
      \* nothing answers
      [doi |-> "down", records |-> Records, arxiv |-> "down", ids |-> {"2407.03393"},
       search |-> "down", keyword |-> "quantum", sites |-> <<>>],
      \* dx.doi.org is overloaded and the sites found cannot be downloaded
      [doi |-> "busy", records |-> Records, arxiv |-> "up", ids |-> {},
       search |-> "up", keyword |-> "quantum",
       sites |-> << [url |-> "http://x.org/a", body |-> FetchRaises],
                    [url |-> "http://x.org/10.1103/PhysRev.47.777", body |-> ""] >>],
      \* only export.arxiv.org answers
      [doi |-> "down", records |-> Records, arxiv |-> "up", ids |-> {"2407.03393"},
       search |-> "down", keyword |-> "quantum", sites |-> <<>>] }

\* the settings config.set is called on
Settings == {"webvalidation", "websearch", "save_identifier_metadata"}

\* the identifiers add_found_identifier_to_metadata is called with
Identifiers == {Doi1, "test"}

Init ==
    /\ config = DefaultConfig
    /\ vpc = "idle"
    /\ vcall = NoCall
    /\ NumberAttempts = 0
    /\ nreq = 0
    /\ nfeed = 0
    /\ transients = 0
    /\ lastResp = NoResp
    /\ vresult = None
    /\ doc \in Documents
    /\ world \in Worlds
    /\ pc = "idle"
    /\ calls = <<>>
    /\ result = NoResult
    /\ prev = NoResult
    /\ invoked = <<>>
    /\ attributes = Absent
    /\ log = <<>>
    /\ written = Absent
    /\ target = <<>>
    /\ pdf_files = <<>>
    /\ identifiers_found = <<>>
    /\ bpc = "idle"
    /\ returned = Absent
    /\ raw = None
    /\ std_in = None
    /\ std_out = None
    /\ std_n = 0

\* config.set(name, value) between two resolutions
Set(name, value) ==
    /\ pc = "idle"
    /\ config' = [config EXCEPT ![name] = value]
    /\ prev' = NoResult
    /\ UNCHANGED <<bvars, svars, vvars, doc, world, pc, calls, result, invoked, attributes,
                   log, written>>

\* add_found_identifier_to_metadata(target, identifier) between two
\* resolutions (the option -id of the command line)
AddIdentifier(identifier) ==
    /\ pc = "idle"
    /\ doc' = add_found_identifier_to_metadata(doc, identifier)
    /\ prev' = NoResult
    /\ written' = Some([identifier |-> identifier, before |-> doc.info])
    /\ UNCHANGED <<bvars, svars, config, vvars, world, pc, calls, result, invoked, attributes,
                   log>>

\* pdf2doi_singlefile is called on the document
Resolve ==
    /\ pc = "idle"
    /\ pc' = Methods[1]
    /\ calls' = <<>>
    /\ result' = NoResult
    /\ invoked' = <<>>
    /\ log' = <<>>
    /\ written' = Absent
    /\ UNCHANGED <<bvars, svars, config, vvars, doc, world, prev, attributes>>

\* what pdf2doi_singlefile does with the result r of a find_identifier call
Called(r) ==
    IF r.raised
    THEN /\ pc' = "raised"
         /\ UNCHANGED <<calls, result>>
    ELSE /\ pc' = pdf2doi_singlefile_then(pc, r)
         /\ calls' = Append(calls, r)
         /\ result' = r

\* the find_identifier call pdf2doi_singlefile has come to
FindIdentifier ==
    /\ \E i \in 1..Len(Methods) : Methods[i] = pc
    /\ Called(find_identifier(doc, pc, MethodArguments(pc), config, world))
    /\ invoked' = Append(invoked, functions_called(pc, doc, config))
    /\ log' = Append(log, events(pc, doc, MethodArguments(pc), config, world))
    /\ UNCHANGED <<bvars, svars, config, vvars, doc, world, prev, attributes, written>>

\* the caller takes the result, or the exception
Return ==
    /\ pc \in {"returned", "raised"}
    /\ pc' = "idle"
    /\ prev' = IF pc = "returned" THEN result ELSE NoResult
    /\ calls' = <<>>
    /\ result' = NoResult
    /\ invoked' = <<>>
    /\ log' = <<>>
    /\ UNCHANGED <<bvars, svars, config, vvars, doc, world, attributes, written>>

Next ==
    \/ \E name \in Settings, value \in BOOLEAN : Set(name, value)
    \/ \E identifier \in Identifiers : AddIdentifier(identifier)
    \/ Resolve
    \/ FindIdentifier
    \/ Return

Spec == Init /\ [][Next]_vars

(***************************************************************************)
(* Properties of the resolver                                              *)
(***************************************************************************)
\* the order in which the strategies are to be tried
StrategyOrder ==
    <<"document_infos", "filename", "document_text", "title_google",
      "first_N_characters_google">>

\* a strategy is about to be called
AtStrategy == \E i \in 1..Len(StrategyOrder) : StrategyOrder[i] = pc

\* the calls made so far follow the order, and only the last of them may
\* have found an identifier
OrderedCalls ==
    /\ Len(calls) <= Len(StrategyOrder)
    /\ \A i \in 1..Len(calls) : calls[i].method = StrategyOrder[i]
    /\ \A i \in 1..(Len(calls) - 1) : ~Truthy(calls[i].identifier)
    /\ AtStrategy =>
           /\ Len(calls) < Len(StrategyOrder)
           /\ pc = StrategyOrder[Len(calls) + 1]
           /\ \A i \in 1..Len(calls) : ~Truthy(calls[i].identifier)
    /\ pc = "returned" =>
           /\ Len(calls) >= 1
           /\ result = calls[Len(calls)]
           /\ Truthy(result.identifier) \/ Len(calls) = Len(StrategyOrder)

\* a call that returns is recorded with the name of the strategy called
CallStep ==
    (AtStrategy /\ calls' # calls) =>
        /\ calls' = Append(calls, result')
        /\ result'.method = pc

\* C1: pdf2doi_singlefile calls the strategies in the order document_infos,
\* filename, document_text, title_google, first_N_characters_google; as soon
\* as one of them returns an identifier, that result is returned, its method
\* naming the strategy, and no later strategy is called.
C1_FixedOrderFirstHitReturns == [] OrderedCalls /\ [][CallStep]_vars

\* C1 witness: the third strategy found the identifier and its result was
\* returned
C1_Witness ==
    /\ pc = "returned"
    /\ Len(calls) = 3
    /\ result.method = "document_text"
    /\ Truthy(result.identifier)

\* the validator confirms the identifier v as a DOI or as an arXiv identifier
Confirms(v) ==
    \/ Truthy(validate(v, "doi", config, world))
    \/ Truthy(validate(v, "arxiv", config, world))

\* the metadata of the document hold the identifier v under the key key
HoldsUnder(key, v) ==
    /\ doc.info # Absent
    /\ \E i \in 1..Len(ListOf(doc.info)) :
           ListOf(doc.info)[i] = [key |-> key, value |-> Str(v)]

\* C2: when the metadata hold, under the write-back key, an identifier the
\* validator confirms, whatever the other fields, the resolution returns that
\* identifier by the metadata strategy and calls no other strategy.
C2_WriteBackKeyWins ==
    \A v \in {Doi1, Doi2, "2407.03393"} :
        (HoldsUnder("/identifier", v) /\ Confirms(v) /\ pc # "idle") =>
            /\ pc \in {"document_infos", "returned"}
            /\ pc = "returned" =>
                   /\ result.identifier = v
                   /\ result.method = "document_infos"

\* a resolution found its identifier by a strategy other than the metadata
\* strategy while write-back was enabled
FoundElsewhere(r) ==
    /\ Truthy(r.identifier)
    /\ r.method # "document_infos"
    /\ config.save_identifier_metadata

\* C3: an identifier confirmed by a strategy other than the metadata
\* strategy, with save_identifier_metadata enabled, is in the metadata of the
\* document (whose metadata can be read) under the write-back key when the
\* result is returned, and the resolution that follows returns it by the
\* metadata strategy.
C3_WriteBackBeforeReturn ==
    /\ (pc = "returned" /\ FoundElsewhere(result) /\ doc.info # Absent) =>
           HoldsUnder("/identifier", result.identifier)
    /\ (pc = "returned" /\ FoundElsewhere(prev) /\ doc.info # Absent) =>
           /\ result.identifier = prev.identifier
           /\ result.method = "document_infos"

\* C4: no failure of a collaborator escapes pdf2doi_singlefile: no call of
\* it ends with an exception.
C4_NoFailureEscapes == pc # "raised"

(***************************************************************************)
(* Properties of the validator: what the authorities answer                *)
(***************************************************************************)
\* the authority answered, and its answer says the identifier does not
\* exist: a "DOI Not Found" body that is not a transient response, or a feed
\* with no entry
DefinitiveNegative ==
    \/ /\ vcall.what = "doi"
       /\ nreq > 0
       /\ lastResp.text \notin {None, "<raised>"}
       /\ ~Transient(lastResp)
       /\ Contains(Lower(lastResp.text), Lower("DOI Not Found"))
    \/ /\ vcall.what = "arxiv"
       /\ nfeed > 0
       /\ lastResp.text = "<no entry>"

\* C11: for both kinds, a definitive negative answer of the authority (a
\* "DOI Not Found" body from dx.doi.org, a feed with no entry from
\* export.arxiv.org) makes validate return False, never None and never a
\* confirmation.
C11_NotFoundIsRejected ==
    (vpc = "returned" /\ DefinitiveNegative) => vresult = PyFalse

\* the request of the call in progress raised
ConnectionFailed == vpc = "returned" /\ lastResp.text = "<raised>"

\* C12: when the HTTP request or the feed query raises, the web validator
\* returns -1 and validate returns None (indeterminate), not False, for both
\* kinds.
C12_ConnectionFailureIsIndeterminate ==
    ConnectionFailed => (web_exception = MinusOne /\ vresult = None)

\* C12 witness: the third request to dx.doi.org raises, after two transient
\* responses
C12_Witness ==
    /\ ConnectionFailed
    /\ vcall.what = "doi"
    /\ nreq = 3
    /\ transients = 2

\* dx.doi.org found the DOI and answered, in the format validate_doi_web
\* asked for, the record of a journal
JournalFound ==
    /\ vpc = "returned"
    /\ vcall.what = "doi"
    /\ nreq > 0
    /\ lastResp.status = 200
    /\ lastResp.text = JournalRecord(accept_header(None, config))

\* C13: whenever dx.doi.org answers with a found record that describes a
\* collection (a journal, a miscellaneous entry) and not an article, validate
\* returns False, whatever format method_dxdoiorg asks for, the default one
\* included.
C13_CollectionRecordIsRejected == JournalFound => vresult = PyFalse

(***************************************************************************)
(* Properties of the results                                               *)
(***************************************************************************)
\* the results find_identifier returned in the resolution in progress
Returned == {calls[i] : i \in 1..Len(calls)} \cup {result}

\* C14: in every result find_identifier returns, whatever the strategy and
\* whatever its collaborators did, an absent identifier comes with an absent
\* validation_info and an absent identifier_type.
C14_AbsentIdentifierHasNoPayload ==
    \A r \in Returned :
        r.identifier = None =>
            (r.validation_info = None /\ r.identifier_type = None)

\* C14 witness: the five strategies ran and none found an identifier
C14_Witness ==
    /\ pc = "returned"
    /\ Len(calls) = 5
    /\ \A i \in 1..5 : calls[i].identifier = None /\ calls[i].path = doc.name
    /\ result = calls[5]

\* C15: the identifier the scanning functions return and find_identifier
\* puts in its result is the normalised one: for a DOI, standardise_doi of
\* the text that matched, which is in lower case (a search result whose URL
\* ends in 10.1103/PhysRev.47.777 gives 10.1103/physrev.47.777), not the
\* text that matched.
C15_ReturnedDoiIsNormalised ==
    \A r \in Returned :
        r.identifier_type = "DOI" => r.identifier = Lower(r.identifier)

(***************************************************************************)
(* standardise_doi, called on a string and then on its own results         *)
(***************************************************************************)
\* how many times in a row standardise_doi is applied
MaxApplications == 3

\* registrants of 4 to 9 digits
Registrants == {"1103", "1016", "123456789"}

\* suffixes over [-._;()/:a-z0-9] that end in a letter or a digit and hold
\* no "/"
Suffixes ==
    {"physrev.47.777", "0141-4607(85)90047-2", "j.1532-5415.2012.04014.x",
     "5", "a:b;c_d"}

CanonicalDois == [R : Registrants, S : Suffixes]

\* the DOI of registrant c.R and suffix c.S written with the separator sep
WithSeparator(c, sep) == "10." \o c.R \o sep \o c.S

Canonical(c) == WithSeparator(c, "/")

\* the spellings of test_standardise_doi: the separator replaced by ":", by
\* a space, by "]" with a leading "[", and a "." after the DOI
Variants(c) ==
    {WithSeparator(c, ":"), WithSeparator(c, " "),
     "[" \o WithSeparator(c, "]"), Canonical(c) \o "."}

\* strings that doi_regexp[0] captures after the word doi
StrictStrings ==
    {"10.1103/PhysRev.47.777", "10.1109/CVPR.2016.90", "10.1234:AB-5",
     "10.12345", "10.1234.56/ab", "10.1234/5", "10.1234abc", "10.1234-x/y",
     "10.1234/ab."}

\* other strings: markers, text around the DOI, more than one DOI, no DOI
OtherStrings ==
    {"", "foo", "10.12", "doi:10.1234/ab", "DOI: 10.1177:0146167297234003.",
     "DOI 10.1016/J.X 10.5555/yz", "https://doi.org/10.1109/sp.2011.40",
     "10.1177:0146167297234003.pdf", "10.1234/ab\n10.5678/cd", "10.1234/ab<",
     "doi10.1177:01", "10.16/j.reuma.2008.12.011", "10.2.337/dc08-2337"}

RawIdentifiers ==
    {Canonical(c) : c \in CanonicalDois}
    \cup UNION {Variants(c) : c \in CanonicalDois}
    \cup StrictStrings \cup OtherStrings

InitStandardise ==
    /\ config = DefaultConfig
    /\ vpc = "idle"
    /\ vcall = NoCall
    /\ NumberAttempts = 0
    /\ nreq = 0
    /\ nfeed = 0
    /\ transients = 0
    /\ lastResp = NoResp
    /\ vresult = None
    /\ doc = NoDocument
    /\ world = NoWorld
    /\ pc = "idle"
    /\ calls = <<>>
    /\ result = NoResult
    /\ prev = NoResult
    /\ invoked = <<>>
    /\ attributes = Absent
    /\ log = <<>>
    /\ written = Absent
    /\ target = <<>>
    /\ pdf_files = <<>>
    /\ identifiers_found = <<>>
    /\ bpc = "idle"
    /\ returned = Absent
    /\ raw \in RawIdentifiers
    /\ std_in = None
    /\ std_out = None
    /\ std_n = 0

\* what the next call is made on: raw, then the result of the call before
Argument == IF std_n = 0 THEN raw ELSE std_out

\* standardise_doi(identifier) is called and returns
Standardise ==
    /\ std_n < MaxApplications
    /\ std_n > 0 => std_out # None
    /\ std_in' = Argument
    /\ std_out' = standardise_doi(Argument)
    /\ std_n' = std_n + 1
    /\ UNCHANGED <<bvars, raw, config, vvars, pvars>>

NextStandardise == Standardise

SpecStandardise == InitStandardise /\ [][NextStandardise]_vars

(***************************************************************************)
(* Properties of standardise_doi                                           *)
(***************************************************************************)
\* C16: standardise_doi is idempotent on its range: for every string x with
\* standardise_doi(x) not None, standardise_doi(standardise_doi(x)) equals
\* standardise_doi(x).
C16_StandardiseIdempotent == std_n >= 2 => std_out = std_in

\* C16 witness: a DOI written with a marker, upper-case letters, ":" as
\* separator and a final "." was standardised, and so was the result
C16_Witness ==
    /\ std_n = 2
    /\ raw = "DOI: 10.1177:0146167297234003."
    /\ std_in = "10.1177/0146167297234003"
    /\ std_out = std_in

\* doi_regexp[0] captures the whole of s when s follows the word doi
StrictCaptured(s) == FindAll(doi_regexp[1], "doi:" \o s) = <<s>>

\* the index of the first character of s after "10." that is no digit
\* (Len(s) + 1 when there is none)
RegistrantEnd(s) ==
    Min({i \in 4..Len(s) : Char(s, i) \notin Digits} \cup {Len(s) + 1})

\* s is "10.", digits, "/", and a suffix
SlashSeparated(s) ==
    /\ SubSeq(s, 1, 3) = "10."
    /\ RegistrantEnd(s) > 4
    /\ RegistrantEnd(s) < Len(s)
    /\ Char(s, RegistrantEnd(s)) = "/"

\* C17: for every string s that doi_regexp[0] captures, standardise_doi(s)
\* is not None, is in lower case, and has "/" as the separator between the
\* registrant and the suffix.
C17_StrictMatchIsStandardised ==
    (std_n = 1 /\ StrictCaptured(raw)) =>
        /\ std_out # None
        /\ std_out = Lower(std_out)
        /\ SlashSeparated(std_out)

\* C18: for every canonical lower-case DOI d = 10.R/S, standardise_doi
\* returns d when the separator of d is replaced by ":", by a space or by "]"
\* (with a "[" put in front), and when a "." is put after d.
C18_SeparatorVariantsGiveCanonical ==
    \A c \in CanonicalDois :
        (std_n = 1 /\ raw \in Variants(c)) => std_out = Canonical(c)

(***************************************************************************)
(* Properties of the web-search methods                                    *)
(***************************************************************************)
\* C19: when the web search is disabled, whatever webvalidation is, the
\* methods title_google and first_N_characters_google (the fourth and the
\* fifth) are skipped entirely: each returns no identifier and calls none of
\* its collaborators (no title, metadata or text extraction, no web search,
\* no download, no validation).
C19_WebSearchOffSkipsStrategies ==
    config.websearch = FALSE =>
        \A i \in 4..Len(invoked) :
            /\ invoked[i] = {}
            /\ i <= Len(calls) => calls[i].identifier = None

(***************************************************************************)
(* pdf2doi(target, ...), one step per find_identifier call                 *)
(***************************************************************************)
\* pdf2doi(target, websearch=..., webvalidation=..., ...) is called on the
\* path of the document, an existing file whose name ends in .pdf: lines
\* 78-82 set attributes of the class config, and line 149 calls
\* pdf2doi_singlefile
Pdf2doi(websearch, webvalidation, save_identifier_metadata, numb_results_google_search) ==
    /\ pc = "idle"
    /\ attributes' =
           Some([check_online_to_validate |-> webvalidation,
                 websearch |-> websearch,
                 save_identifier_metadata |-> save_identifier_metadata,
                 numb_results_google_search |-> numb_results_google_search])
    /\ pc' = Methods[1]
    /\ calls' = <<>>
    /\ result' = NoResult
    /\ invoked' = <<>>
    /\ log' = <<>>
    /\ written' = Absent
    /\ UNCHANGED <<bvars, svars, config, vvars, doc, world, prev>>

NextPdf2doi ==
    \/ \E name \in {"webvalidation", "websearch"}, value \in BOOLEAN : Set(name, value)
    \/ \E websearch \in BOOLEAN, webvalidation \in BOOLEAN :
           Pdf2doi(websearch, webvalidation, TRUE, 6)
    \/ FindIdentifier
    \/ Return

SpecPdf2doi == Init /\ [][NextPdf2doi]_vars

\* C20: the arguments websearch and webvalidation of pdf2doi are the settings
\* the methods and validate observe during the call: with webvalidation
\* False no request goes to dx.doi.org or export.arxiv.org (a validation is
\* the bare True), with websearch False no web search is made, whatever the
\* configuration held before the call.
C20_ArgumentsAreObserved ==
    (attributes # Absent /\ pc # "idle") =>
        /\ config.websearch = ListOf(attributes).websearch
        /\ config.webvalidation = ListOf(attributes).check_online_to_validate
        /\ ListOf(attributes).websearch = FALSE =>
               \A i \in 1..Len(invoked) :
                   "find_identifier_in_google_search" \notin invoked[i]
        /\ ListOf(attributes).check_online_to_validate = FALSE =>
               \A i \in 1..Len(calls) : calls[i].validation_info \in {None, PyTrue}

(***************************************************************************)
(* pdf2doi(target, ...) on a directory, one step per file                  *)
(***************************************************************************)
\* pdf2doi_singlefile as a whole: the result it returns, or the exception
\* of the find_identifier call that raised
RECURSIVE pdf2doi_singlefile_from(_, _, _, _)
\* pdf2doi_singlefile after the method method returned found
pdf2doi_singlefile_after(found, method, d, cfg, w) ==
    IF found.raised \/ pdf2doi_singlefile_then(method, found) = "returned"
    THEN found
    ELSE pdf2doi_singlefile_from(pdf2doi_singlefile_then(method, found), d, cfg, w)

pdf2doi_singlefile_from(method, d, cfg, w) ==
    pdf2doi_singlefile_after(find_identifier(d, method, MethodArguments(method), cfg, w),
                             method, d, cfg, w)

pdf2doi_singlefile(d, cfg, w) == pdf2doi_singlefile_from(Methods[1], d, cfg, w)

\* (f.lower()).endswith('.pdf')
EndsWithPdf(f) ==
    /\ Len(f) >= 4
    /\ Lower(SubSeq(f, Len(f) - 3, Len(f))) = ".pdf"

\* [f for f in listdir(target) if (f.lower()).endswith('.pdf')]
PdfFilesOf(listing) == SelectSeq(listing, LAMBDA d : EndsWithPdf(d.name))

\* how many files a directory holds at most
MaxFiles == 3

\* the files of the directories
Files ==
    { \* the DOI is printed on the first page
      Document("a.pdf", Some(<<Entry("/Producer", "foo")>>),
               Some(<<Str("doi:10.1103/PhysRev.47.777\n")>>), <<>>, ""),
      \* a scan whose text is not UTF-8
      Document("b.pdf", Absent, Absent, <<BadBytes>>, TitleRaises),
      \* nothing but the text foo
      Document("c.pdf", Some(<<Entry("/Producer", "foo")>>),
               Some(<<Str("foo")>>), <<Str("foo")>>, "foo"),
      \* named after its arXiv identifier, the extension in upper case
      Document("2407.03393.PDF", Absent, Absent, <<>>, TitleRaises),
      \* no pdf file
      Document("notes.txt", Absent, Absent, <<>>, TitleRaises) }

RECURSIVE ListingsOf(_, _)
\* the lists of at most n distinct elements of S
ListingsOf(S, n) ==
    IF n = 0 THEN {<<>>}
    ELSE {<<>>} \cup UNION {{<<d>> \o l : l \in ListingsOf(S \ {d}, n - 1)} : d \in S}

Directories == ListingsOf(Files, MaxFiles)

InitDirectory ==
    /\ config \in {[DefaultConfig EXCEPT !.webvalidation = b] : b \in BOOLEAN}
    /\ vpc = "idle"
    /\ vcall = NoCall
    /\ NumberAttempts = 0
    /\ nreq = 0
    /\ nfeed = 0
    /\ transients = 0
    /\ lastResp = NoResp
    /\ vresult = None
    /\ doc = NoDocument
    /\ world \in Worlds
    /\ pc = "idle"
    /\ calls = <<>>
    /\ result = NoResult
    /\ prev = NoResult
    /\ invoked = <<>>
    /\ attributes = Absent
    /\ log = <<>>
    /\ written = Absent
    /\ raw = None
    /\ std_in = None
    /\ std_out = None
    /\ std_n = 0
    /\ target \in Directories
    /\ pdf_files = <<>>
    /\ identifiers_found = <<>>
    /\ bpc = "idle"
    /\ returned = Absent

\* pdf2doi(target) is called on the directory, up to its loop (lines 78-112)
Pdf2doiDirectory ==
    /\ bpc = "idle"
    /\ pdf_files' = PdfFilesOf(target)
    /\ identifiers_found' = <<>>
    /\ bpc' = IF PdfFilesOf(target) = <<>> THEN "returned" ELSE "files"
    /\ returned' = Absent
    /\ UNCHANGED <<config, vvars, pvars, svars, target>>

\* what the loop of line 113 does with what pdf2doi returned for a file:
\* an exception ends the call of pdf2doi; the result of the last file makes
\* it return the list (lines 117-140)
Appended(r) ==
    IF r.raised
    THEN /\ bpc' = "raised"
         /\ UNCHANGED <<identifiers_found, returned>>
    ELSE /\ identifiers_found' = Append(identifiers_found, r)
         /\ IF Len(identifiers_found) + 1 = Len(pdf_files)
            THEN bpc' = "returned" /\ returned' = Some(Append(identifiers_found, r))
            ELSE bpc' = "files" /\ returned' = returned

\* one pass of the loop of line 113: pdf2doi is called on the next file
Pdf2doiFile ==
    /\ bpc = "files"
    /\ Appended(pdf2doi_singlefile(pdf_files[Len(identifiers_found) + 1], config, world))
    /\ UNCHANGED <<config, vvars, pvars, svars, target, pdf_files>>

\* the caller takes the list, None, or the exception
Pdf2doiReturn ==
    /\ bpc \in {"returned", "raised"}
    /\ bpc' = "idle"
    /\ pdf_files' = <<>>
    /\ identifiers_found' = <<>>
    /\ returned' = Absent
    /\ UNCHANGED <<config, vvars, pvars, svars, target>>

NextDirectory ==
    \/ Pdf2doiDirectory
    \/ Pdf2doiFile
    \/ Pdf2doiReturn

SpecDirectory == InitDirectory /\ [][NextDirectory]_vars

\* the names of the files of the directory that end in .pdf, in listing order
PdfNames == [i \in 1..Len(PdfFilesOf(target)) |-> PdfFilesOf(target)[i].name]

\* C21: pdf2doi on a directory returns a list with exactly one result per
\* file whose name ends in .pdf (whatever the case of the letters), in
\* listing order; a file whose resolution fails, by an exception or by
\* finding no identifier, does not end the call and takes no result of
\* another file away.
C21_BatchIsPerFile ==
    /\ bpc # "raised"
    /\ bpc = "returned" =>
           /\ returned # Absent
           /\ Len(ListOf(returned)) = Len(PdfNames)
           /\ \A i \in 1..Len(PdfNames) : ListOf(returned)[i].path = PdfNames[i]

(***************************************************************************)
(* Properties of the write-back                                            *)
(***************************************************************************)
\* add_found_identifier_to_metadata was called and could read the document
\* information: it wrote the file and logged its success (line 473)
WriteSucceeded == written # Absent /\ ListOf(written).before # Absent

\* C22: after add_found_identifier_to_metadata(path, id) succeeds, the
\* mapping get_pdf_info reads from the document holds the dedicated key
\* '/pdf2doi_identifier' with the value id, a key that is neither '/doi' nor
\* '/identifier'.
C22_WriteBackRoundTrip ==
    WriteSucceeded => HoldsUnder("/pdf2doi_identifier", ListOf(written).identifier)

\* the entries of the document information info ({} when it cannot be read)
EntriesOf(info) ==
    IF info = Absent THEN {} ELSE {ListOf(info)[i] : i \in 1..Len(ListOf(info))}

\* C23: add_found_identifier_to_metadata changes the write-back key only:
\* when it has returned, with or without success, every key of the document
\* information that was there before, the write-back key apart, is still
\* there with the value it had, also when taking the former information over
\* into the writer raised.
C23_WriteBackKeepsOtherKeys ==
    written # Absent =>
        \A e \in EntriesOf(ListOf(written).before) :
            e.key # "/identifier" => e \in EntriesOf(doc.info)

(***************************************************************************)
(* Properties of the filename method                                       *)
(***************************************************************************)
\* <id>.pdf, id being four digits, ".", digits, and possibly a version vK
ArxivFileName == <<Bos>> \o ArxivNumber \o <<Version, Lit(".pdf"), Eos>>

\* the file of the document is named after an arXiv identifier
ArxivNamed == ReMatch(ArxivFileName, basename(doc.name))

\* that identifier, without its version
NamedId == FindAll(ArxivFileName, basename(doc.name))[1]

\* export.arxiv.org answers and holds the identifier
ArxivHolds(id) == world.arxiv = "up" /\ id \in world.ids

\* C24: for a document whose file is named <id>.pdf, id being four digits,
\* ".", digits and possibly a version vK, whose metadata yield no identifier
\* and whose id export.arxiv.org confirms, the resolution returns id without
\* its version, as an arXiv identifier found by the method filename, and
\* calls neither the text method nor the web-search methods.
C24_ArxivFileNameResolves ==
    (/\ ArxivNamed
     /\ ArxivHolds(NamedId)
     /\ Len(calls) >= 1
     /\ calls[1].identifier = None) =>
        /\ Len(calls) <= 2
        /\ pc \in {"filename", "returned"}
        /\ pc = "returned" =>
               /\ result.identifier = NamedId
               /\ result.identifier_type = "arxiv ID"
               /\ result.method = "filename"
               /\ Truthy(result.validation_info)

\* C24 witness: 2407.03393v2.pdf was resolved to 2407.03393 by its name
C24_Witness ==
    /\ pc = "returned"
    /\ doc.name = "2407.03393v2.pdf"
    /\ Len(calls) = 2
    /\ calls[1].identifier = None
    /\ result.identifier = "2407.03393"
    /\ result.method = "filename"
    /\ result.validation_info = "<entry>"

(***************************************************************************)
(* Properties of what the methods do                                       *)
(***************************************************************************)
\* the index in the events L of the text the event of index p belongs to
TextIndex(L, p) == Max({k \in 1..p : L[k].op = "text"})

\* the validations made on the text of index t, up to the event of index p,
\* for the kind what with the pattern of index version
ValidatedBy(L, t, p, what, version) ==
    {k \in (t + 1)..p : /\ L[k].op = "validate"
                        /\ L[k].what = what
                        /\ L[k].version = version}

\* what the pattern of index version captures in text for the kind what, from
\* left to right
Captured(what, version, text) ==
    IF what = "doi" THEN FindAll(doi_regexp[version], text)
    ELSE FindAll(arxiv_regexp[version], text)

\* the validation of index p is the one due at that place: the candidates
\* of its pattern are validated from left to right, after all the candidates
\* of the stricter patterns of its kind, DOIs first
ValidatedInOrder(L, p, t) ==
    /\ Cardinality(ValidatedBy(L, t, p, L[p].what, L[p].version))
           <= Len(Captured(L[p].what, L[p].version, L[t].text))
    /\ L[p].text = Captured(L[p].what, L[p].version, L[t].text)[
                       Cardinality(ValidatedBy(L, t, p, L[p].what, L[p].version))]
    /\ \A v \in 1..(L[p].version - 1) :
           Cardinality(ValidatedBy(L, t, p, L[p].what, v))
               = Len(Captured(L[p].what, v, L[t].text))
    /\ \A k \in (t + 1)..(p - 1) :
           L[k].op = "validate" =>
               /\ L[k].what = L[p].what => L[k].version <= L[p].version
               /\ L[k].what = "arxiv" => L[p].what = "arxiv"

\* a validation that confirms is the last event of its call
ConfirmedLast(L) ==
    \A p \in 1..Len(L) :
        (L[p].op = "validate" /\ Truthy(L[p].value)) => p = Len(L)

\* C25: within one text, find_identifier_in_text hands the candidates to the
\* validator in the order of the patterns: every candidate of the pattern i
\* of a kind is validated, from left to right, before any candidate of a
\* looser pattern j > i of that kind, and a candidate that is confirmed ends
\* the scan, no candidate being validated after it.
C25_StrictPatternsFirst ==
    \A c \in 1..Len(log) :
        /\ ConfirmedLast(log[c])
        /\ \A p \in 1..Len(log[c]) :
               log[c][p].op = "validate" =>
                   ValidatedInOrder(log[c], p, TextIndex(log[c], p))

\* C25 witness: on the page of refs.pdf the DOI that follows the word doi was
\* validated first and confirmed, although another DOI stands to its left
C25_Witness ==
    /\ doc.name = "refs.pdf"
    /\ Len(log) = 3
    /\ Len(log[3]) = 2
    /\ log[3][2].op = "validate"
    /\ log[3][2].text = "10.1103/PhysRev.47.777"
    /\ log[3][2].version = 1
    /\ Truthy(log[3][2].value)
    /\ result.identifier = "10.1103/PhysRev.47.777"

\* the same page when dx.doi.org confirms nothing: the candidates of the
\* first pattern, then those of the second, from left to right
C25_WitnessAll ==
    /\ doc.name = "refs.pdf"
    /\ Len(log) = 3
    /\ Len(log[3]) >= 4
    /\ log[3][2].text = "10.1103/PhysRev.47.777" /\ log[3][2].version = 1
    /\ log[3][3].text = "10.1234/abcd" /\ log[3][3].version = 2
    /\ log[3][4].text = "10.1103/PhysRev.47.777" /\ log[3][4].version = 2

\* the keys find_identifier_in_pdf_info came to in the events L, in order
RECURSIVE KeysScanned(_)
KeysScanned(L) ==
    IF L = <<>> THEN <<>>
    ELSE (IF Head(L).op = "key" THEN <<Head(L).text>> ELSE <<>>) \o KeysScanned(Tail(L))

\* the write-back key and the keys '/doi' and '/identifier'
PriorityKeys == {"/identifier", "/doi"}

\* the keys of the sequence keys that are no priority keys, in their order
OtherKeys(keys) == SelectSeq(keys, LAMBDA k : k \notin PriorityKeys)

\* the sequence small is what is left of the sequence big when elements of
\* its end are taken away
IsPrefix(small, big) ==
    Len(small) <= Len(big) /\ small = SubSeq(big, 1, Len(small))

\* C26: the metadata method scans every field at most once in a resolution;
\* the priority keys that are present (the write-back key, '/doi',
\* '/identifier') are scanned before any other field, and the other fields
\* in their natural order, also when a priority key comes again in the
\* natural list of the keys.
C26_PriorityKeysFirstEachOnce ==
    (Len(log) >= 1 /\ doc.info # Absent) =>
        LET scanned == KeysScanned(log[1])
        IN  /\ \A i, j \in 1..Len(scanned) : scanned[i] = scanned[j] => i = j
            /\ \A i, j \in 1..Len(scanned) :
                   (scanned[i] \notin PriorityKeys /\ scanned[j] \in PriorityKeys) => i > j
            /\ \A i \in 1..Len(scanned) :
                   scanned[i] \notin PriorityKeys =>
                       \A k \in PriorityKeys :
                           (\E e \in EntriesOf(doc.info) : e.key = k) =>
                               \E j \in 1..(i - 1) : scanned[j] = k
            /\ IsPrefix(OtherKeys(scanned),
                        SelectSeq(OtherKeys(InfoKeys(ListOf(doc.info))),
                                  LAMBDA k : Lower(k) \notin KeysNotToUse))

(***************************************************************************)
(* The resolver with the settings of the web search changed                *)
(***************************************************************************)
\* the values config.set gives to numb_results_google_search
NumbResults == {1, 6}

\* the values config.set gives to N_characters_in_pdf
NumbCharacters == {4, 1000}

NextSearch ==
    \/ \E value \in NumbResults : Set("numb_results_google_search", value)
    \/ \E value \in NumbCharacters : Set("N_characters_in_pdf", value)
    \/ Resolve
    \/ FindIdentifier
    \/ Return

SpecSearch == Init /\ [][NextSearch]_vars

\* the events of L from the index a to the index b in which a text is
\* scanned or a page is fetched, each as <<op, text>>
RECURSIVE Skeleton(_, _, _)
Skeleton(L, a, b) ==
    IF a > b THEN <<>>
    ELSE (IF L[a].op \in {"text", "get"} THEN << <<L[a].op, L[a].text>> >> ELSE <<>>)
         \o Skeleton(L, a + 1, b)

\* what is to be done with the results sites when no identifier is
\* confirmed: for each result in turn, the URL is scanned, the page is
\* fetched and its body is scanned
Expected(sites) ==
    Flatten([i \in 1..Len(sites) |->
                << <<"text", sites[i].url>>, <<"get", sites[i].url>>,
                   <<"text", sites[i].body>> >>])

\* the index of the last event of L that belongs to the search of index s
SearchEnd(L, s) ==
    Min({k \in (s + 1)..Len(L) : L[k].op = "search"} \cup {Len(L) + 1}) - 1

\* the search of index s of the events L went as it should: the results,
\* at most n of them, were handled in turn up to the first confirmed
\* identifier, up to a download that raised, or all
SearchHandled(L, s, sites) ==
    /\ Len(sites) <= L[s].n
    /\ IsPrefix(Skeleton(L, s + 1, SearchEnd(L, s)), Expected(sites))
    /\ \/ Skeleton(L, s + 1, SearchEnd(L, s)) = Expected(sites)
       \/ Ends(SubSeq(L, s, SearchEnd(L, s)))
       \/ /\ L[SearchEnd(L, s)].op = "get"
          /\ \E i \in 1..Len(sites) :
                 sites[i].url = L[SearchEnd(L, s)].text /\ sites[i].body = FetchRaises

\* the queries of the searches of the events L, in order
RECURSIVE Queries(_)
Queries(L) ==
    IF L = <<>> THEN <<>>
    ELSE (IF Head(L).op = "search" THEN <<Head(L).text>> ELSE <<>>) \o Queries(Tail(L))

\* C27: find_identifier_in_google_search calls search once for its query
\* (the title method once for each candidate title, in their order), with
\* stop = numb_results, and handles the results in the order returned:
\* the URL of a result is scanned first, and an identifier confirmed in it is
\* returned without that page or a later one being fetched; otherwise the
\* page is fetched and its body scanned; the first confirmed identifier ends
\* the function.
C27_SearchResultsInOrder ==
    \A c \in 1..Len(log) :
        /\ ConfirmedLast(log[c])
        /\ \A s \in 1..Len(log[c]) :
               log[c][s].op = "search" =>
                   SearchHandled(log[c], s,
                                 IF world.search = "down" THEN <<>>
                                 ELSE search(log[c][s].text, log[c][s].n, world))
        /\ c = 4 =>
               /\ \A s \in 1..Len(log[c]) :
                      log[c][s].op = "search" =>
                          log[c][s].n = config.numb_results_google_search
               /\ find_possible_titles(doc) # Absent =>
                      IsPrefix(Queries(log[c]),
                               sort_by_len(ListOf(find_possible_titles(doc))))

\* C27 witness: with numb_results_google_search set to 1, the title of
\* epr.pdf was searched for, the URL of the only result taken was scanned,
\* the page fetched and its body scanned, and the second result, whose URL
\* holds the DOI, was left out
C27_Witness ==
    /\ config.numb_results_google_search = 1
    /\ world.search = "up"
    /\ Len(world.sites) = 2
    /\ Len(log) >= 4
    /\ Len(log[4]) >= 4
    /\ \A k \in 1..Len(log[4]) : log[4][k].text # world.sites[2].url
    /\ log[4][1] = SearchEvent(Title1, 1)
    /\ log[4][2].op = "text" /\ log[4][2].text = world.sites[1].url
    /\ log[4][3] = GetEvent(world.sites[1].url)
    /\ log[4][4].op = "text" /\ log[4][4].text = world.sites[1].body

\* the URL of the second result held a confirmed DOI: no page was fetched
\* after it
C27_WitnessUrl ==
    /\ Len(log) >= 4
    /\ Len(log[4]) = 6
    /\ log[4][5].op = "text" /\ log[4][5].text = world.sites[2].url
    /\ log[4][6].op = "validate" /\ Truthy(log[4][6].value)
    /\ calls[4].identifier = "10.1103/PhysRev.47.777"

(***************************************************************************)
(* The query of find_identifier_by_googling_first_N_characters_in_pdf      *)
(***************************************************************************)
\* the control characters a text of this model can hold (codes 9, 10, 12
\* and 13)
ControlCharacters == {"\t", "\n", "\f", "\r"}

\* the text with every control character replaced by a space
RECURSIVE Stripped(_)
Stripped(text) ==
    IF text = "" THEN ""
    ELSE (IF Char(text, 1) \in ControlCharacters THEN " " ELSE Char(text, 1))
         \o Stripped(SubSeq(text, 2, Len(text)))

\* the texts the readers extract from the document d, each joined
ExtractedTexts(d) ==
    {Join(ListOf(get_pdf_text(d, Lower(reader_libraries[i])))) :
        i \in {j \in 1..Len(reader_libraries) :
                  LET got == get_pdf_text(d, Lower(reader_libraries[j]))
                  IN  /\ got # Absent
                      /\ \A k \in 1..Len(ListOf(got)) : ListOf(got)[k].kind = "str"}}

\* the searches of the fifth method in the resolution going on
ContentSearches ==
    IF Len(log) < 5 THEN {}
    ELSE {log[5][s] : s \in {k \in 1..Len(log[5]) : log[5][k].op = "search"}}

\* C28: the query of the content-web-search method has at most
\* N_characters_in_pdf characters, holds no control character, and is the
\* first N characters of the extracted text with the control characters
\* stripped.
C28_QueryIsClean ==
    \A e \in ContentSearches :
        /\ Len(e.text) <= config.N_characters_in_pdf
        /\ \A i \in 1..Len(e.text) : Char(e.text, i) \notin ControlCharacters
        /\ \E text \in ExtractedTexts(doc) :
               e.text = Prefix(Stripped(text), config.N_characters_in_pdf)

\* C29: the content-web-search method searches with the values that
\* N_characters_in_pdf and numb_results_google_search have in the
\* configuration when the resolution starts (config.set is not called while
\* a resolution goes on, so these are the values of config now).
C29_SearchSettingsHonoured ==
    \A e \in ContentSearches :
        /\ e.n = config.numb_results_google_search
        /\ \E text \in ExtractedTexts(doc) :
               e.text = Prefix(Unfold(text), config.N_characters_in_pdf)

(***************************************************************************)
(* Soundness: what is returned was confirmed                               *)
(***************************************************************************)
\* the description the results give to a kind of identifier
DescOf(what) == IF what = "doi" THEN "DOI" ELSE "arxiv ID"

\* the event p of L is the validation that confirmed the result r
ConfirmedBy(L, p, r) ==
    /\ L[p].op = "validate"
    /\ L[p].text = r.identifier
    /\ DescOf(L[p].what) = r.identifier_type
    /\ Truthy(L[p].value)
    /\ L[p].value = r.validation_info

\* C30: a result of find_identifier holds an identifier only if func_validate
\* was called in that call on that very string, with its kind, and answered
\* a truthy value, which is the result's validation_info; a validation that
\* answers None or False returns nothing: the scan goes on with the next
\* candidate, and the call ends without identifier when it was the last.
C30_ReturnedWasConfirmed ==
    /\ Len(calls) <= Len(log)
    /\ \A c \in 1..Len(calls) :
           /\ Truthy(calls[c].identifier) =>
                  /\ log[c] # <<>>
                  /\ ConfirmedBy(log[c], Len(log[c]), calls[c])
           /\ \A p \in 1..Len(log[c]) :
                  (log[c][p].op = "validate" /\ ~Truthy(log[c][p].value)) =>
                      \/ p < Len(log[c])
                      \/ ~Truthy(calls[c].identifier)
    /\ (pc = "returned" /\ Truthy(result.identifier)) =>
           \E c \in 1..Len(calls) :
               /\ log[c] # <<>>
               /\ ConfirmedBy(log[c], Len(log[c]), result)

\* C30 witness: in one call a validation answered None, the scan went on,
\* and a later candidate was confirmed and returned
C30_Witness ==
    \E c \in 1..Len(calls) :
        /\ Len(log) >= c
        /\ Truthy(calls[c].identifier)
        /\ \E p \in 1..(Len(log[c]) - 1) :
               /\ log[c][p].op = "validate"
               /\ log[c][p].value = None
               /\ log[c][p].text # calls[c].identifier

\* a call whose only candidate was neither confirmed nor rejected returned
\* no identifier
C30_WitnessNone ==
    \E c \in 1..Len(calls) :
        /\ Len(log) >= c
        /\ log[c] # <<>>
        /\ log[c][Len(log[c])].op = "validate"
        /\ log[c][Len(log[c])].value = None
        /\ calls[c].identifier = None

====
